---- MODULE Spec2Model ----
(***************************************************************************)
(* A model of silpkg, a library that reads and mutates PKG archives in     *)
(* place.  The archive handle (sync::Pkg) owns an in-memory index          *)
(* (base::PkgState) and a storage (a std::io::Cursor over a byte vector,   *)
(* as in tests/sync.rs); every operation of base/write.rs is a routine     *)
(* that mutates the index and issues storage requests, which              *)
(* sync::SyncDriver executes one by one.                                   *)
(*                                                                         *)
(* Bytes are naturals below 256, paths and buffers are sequences of bytes. *)
(* The byte vector is kept sparse: `data` holds the non-zero bytes only    *)
(* (offset -> byte) and `len` the length, so that the zero-filled entry    *)
(* table and path region of a fresh archive cost nothing.  Offsets are     *)
(* 0-based as in the code; slot numbers are 0-based, entries[i + 1] is     *)
(* slot i.                                                                 *)
(***************************************************************************)
EXTENDS Integers, Sequences, FiniteSets, TLC

VARIABLES
    state,      \* sync::Pkg.state : base::PkgState
    storage,    \* sync::Pkg.driver.storage : Cursor<Vec<u8>>
    handle,     \* the live sync::EntryWriter (base::WriteHandle), or NoHandle
    last,       \* the most recent call on the handle and what it returned
    expected,   \* tests/sync.rs `data`: path -> bytes the caller wrote for it
    plan,       \* the caller's remaining scripted calls (<<>>: any call)
    budget,     \* calls the caller may still choose freely
    before,     \* history: the index as the latest insert found it
    prev,       \* history: the index, the storage, `last` and the handle before the
                \* latest call, and what open gave for every path, and the slot of
                \* every path, before the call before it
    copies      \* history: the copy requests the latest call issued

vars == <<state, storage, handle, last, expected, plan, budget, before, prev, copies>>

-----------------------------------------------------------------------------
(* Program constants *)

MAGIC == <<80, 75, 71, 10>>
HEADER_SIZE == 16
ENTRY_SIZE == 20
BUFFER_SIZE == 8192
PREALLOCATED_PATH_LEN == 30
PREALLOCATED_ENTRY_COUNT == 64
DEFLATED == 16777216
FILL_CHUNK == 1024

Min(a, b) == IF a < b THEN a ELSE b
Max(a, b) == IF a > b THEN a ELSE b

None == [some |-> FALSE]
Some(e) == [some |-> TRUE, v |-> e]

-----------------------------------------------------------------------------
(* Integer encodings (util.rs, base/mod.rs request! write u32 be) *)

to_be_bytes_u32(v) ==
    << (v \div 16777216) % 256, (v \div 65536) % 256, (v \div 256) % 256, v % 256 >>

to_be_bytes_u16(v) == << (v \div 256) % 256, v % 256 >>

as_u32_be(b) == b[1] * 16777216 + b[2] * 65536 + b[3] * 256 + b[4]

as_u16_be(b) == b[1] * 256 + b[2]

\* bitwise operations on naturals below 2^w, bit by bit
RECURSIVE BitOr(_, _, _)
BitOr(a, b, w) ==
    IF w = 0 THEN 0
    ELSE (IF a % 2 = 1 \/ b % 2 = 1 THEN 1 ELSE 0) + 2 * BitOr(a \div 2, b \div 2, w - 1)

RECURSIVE BitXor(_, _, _)
BitXor(a, b, w) ==
    IF w = 0 THEN 0
    ELSE (IF a % 2 # b % 2 THEN 1 ELSE 0) + 2 * BitXor(a \div 2, b \div 2, w - 1)

RECURSIVE BitAnd(_, _, _)
BitAnd(a, b, w) ==
    IF w = 0 THEN 0
    ELSE (IF a % 2 = 1 /\ b % 2 = 1 THEN 1 ELSE 0) + 2 * BitAnd(a \div 2, b \div 2, w - 1)

-----------------------------------------------------------------------------
(* Path hash (base/common.rs) *)

\* a hash that takes the characters as they are
keep_case(c) == c

\* char::make_ascii_lowercase
make_ascii_lowercase(c) == IF c >= 65 /\ c <= 90 THEN c + 32 ELSE c

\* A u32 hash is kept as its two 16-bit halves <<high, low>>: the model
\* checker's integers are 32-bit signed.
\* One iteration of the loop: hash << 27 | hash >> 5, then xor with the
\* lowercased character, then the 32-bit mask (a no-op on two halves)
pkg_path_hash_step(hash, c) ==
    LET hi == hash[1]
        lo == hash[2]
        shl == << (lo % 32) * 2048, 0 >>
        shr == << hi \div 32, (hi % 32) * 2048 + lo \div 32 >>
        rot == << BitOr(shl[1], shr[1], 16), BitOr(shl[2], shr[2], 16) >>
    IN  << rot[1], BitXor(rot[2], make_ascii_lowercase(c), 16) >>

\* the loop over path[lo..hi], left to right, starting from `hash`; the range
\* is split in halves only to keep the evaluation shallow
RECURSIVE pkg_path_hash_from(_, _, _, _)
pkg_path_hash_from(hash, path, lo, hi) ==
    IF lo > hi THEN hash
    ELSE IF lo = hi THEN pkg_path_hash_step(hash, path[lo])
    ELSE LET mid == (lo + hi) \div 2
             left == pkg_path_hash_from(hash, path, lo, mid)
         IN  \* the comparison has the left half evaluated before the right one
             IF left = hash /\ mid = hi THEN left
             ELSE pkg_path_hash_from(left, path, mid + 1, hi)

pkg_path_hash(path) == pkg_path_hash_from(<<0, 0>>, path, 1, Len(path))

\* u32::to_be_bytes of a hash, and its inverse
hash_to_be_bytes(h) == << h[1] \div 256, h[1] % 256, h[2] \div 256, h[2] % 256 >>

hash_from_be_bytes(b) == << b[1] * 256 + b[2], b[3] * 256 + b[4] >>

\* u32 order on hashes
hash_lt(a, b) == a[1] < b[1] \/ (a[1] = b[1] /\ a[2] < b[2])

-----------------------------------------------------------------------------
(* Storage: Cursor<Vec<u8>> driven by sync::SyncDriver *)

EmptyStorage == [data |-> <<>>, len |-> 0, pos |-> 0]

Byte(s, i) == IF i \in DOMAIN s.data THEN s.data[i] ELSE 0

\* the bytes at offsets [from, from + count), which the caller knows to lie
\* below s.len
Slice(s, from, count) == [k \in 1..count |-> Byte(s, from + k - 1)]

\* non-zero bytes of `data` with [p, p + n) overwritten by `bytes`
Put(data, p, bytes) ==
    LET n == Len(bytes)
        keep == {i \in DOMAIN data : i < p \/ i >= p + n}
        new == {p + k - 1 : k \in {k \in 1..n : bytes[k] # 0}}
    IN  [i \in keep \cup new |-> IF i \in new THEN bytes[i - p + 1] ELSE data[i]]

\* SyncDriver::handle_readseek, Seek(SeekFrom::Start(n))
seek_start(s, n) == [s EXCEPT !.pos = n]

\* SyncDriver::handle_readseek, Seek(SeekFrom::End(0)); the response is .pos
seek_end(s) == [s EXCEPT !.pos = s.len]

\* SyncDriver::handle_write, WriteAll: Write::write_all loops while the buffer
\* is not empty; the cursor pads the vector with zeros up to its position
write_all(s, bytes) ==
    IF Len(bytes) = 0 THEN s
    ELSE [data |-> Put(s.data, s.pos, bytes),
          len |-> Max(s.len, s.pos + Len(bytes)),
          pos |-> s.pos + Len(bytes)]

\* SyncDriver::handle_write, Write: one Write::write call, which the cursor
\* serves whole (the response is the buffer's length)
write(s, bytes) ==
    [data |-> Put(s.data, s.pos, bytes),
     len |-> Max(s.len, s.pos + Len(bytes)),
     pos |-> s.pos + Len(bytes)]

\* WriteExt::fill: write_all of `count` bytes of `value` in chunks of
\* FILL_CHUNK; `chunks` full chunks and a rest, all landing back to back
fill(s, value, count) ==
    LET chunks == count \div FILL_CHUNK
        rest == count % FILL_CHUNK
        total == chunks * FILL_CHUNK + rest
        keep == {i \in DOMAIN s.data : i < s.pos \/ i >= s.pos + total}
    IN  IF total = 0 THEN s
        ELSE [data |-> IF value = 0
                       THEN [i \in keep |-> s.data[i]]
                       ELSE [i \in keep \cup (s.pos .. s.pos + total - 1) |->
                                IF i \in keep THEN s.data[i] ELSE value],
              len |-> Max(s.len, s.pos + total),
              pos |-> s.pos + total]

\* SyncDriver::handle_readseek, Read(count): Cursor::read returns what is left
\* of the vector, at most `count` bytes
read(s, count) ==
    LET n == IF s.pos >= s.len THEN 0 ELSE Min(count, s.len - s.pos)
    IN  [bytes |-> Slice(s, s.pos, n), s |-> [s EXCEPT !.pos = s.pos + n]]

\* Read::read_exact: fails with UnexpectedEof when fewer bytes are left
read_exact_ok(s, count) == s.pos + count <= s.len

\* Truncate for Vec<u8>: resize(len, 0); the cursor position stays
truncate(s, n) ==
    [data |-> [i \in {i \in DOMAIN s.data : i < n} |-> s.data[i]],
     len |-> n,
     pos |-> s.pos]


\* Read::read_exact at the cursor: the bytes, or UnexpectedEof, which leaves
\* the cursor at the end of the vector
read_exact(s, count) ==
    IF read_exact_ok(s, count)
    THEN [ok |-> TRUE, bytes |-> Slice(s, s.pos, count), s |-> [s EXCEPT !.pos = s.pos + count]]
    ELSE [ok |-> FALSE, bytes |-> <<>>, s |-> [s EXCEPT !.pos = s.len]]

\* one chunk of a copy_within loop: seek, read_exact, seek, write_all
copy_chunk(s, src, dst, chunk_size) ==
    LET r == read_exact(seek_start(s, src), chunk_size)
    IN  IF r.ok THEN [ok |-> TRUE, s |-> write_all(seek_start(r.s, dst), r.bytes)]
        ELSE [ok |-> FALSE, s |-> r.s]

\* ReadSeekWriteExt::copy_within, the loop of the `else if` branch
RECURSIVE copy_within_backward(_, _, _, _, _)
copy_within_backward(s, input_offset, output_offset, buf_size, remaining) ==
    IF remaining = 0 THEN [ok |-> TRUE, s |-> s]
    ELSE LET chunk_size == Min(buf_size, remaining)
             r == copy_chunk(s, input_offset + remaining, output_offset + remaining, chunk_size)
         IN  IF r.ok
             THEN copy_within_backward(r.s, input_offset, output_offset, buf_size,
                                       remaining - chunk_size)
             ELSE r

\* ReadSeekWriteExt::copy_within, the loop of the `else` branch
RECURSIVE copy_within_forward(_, _, _, _, _)
copy_within_forward(s, input_offset, output_offset, count, remaining) ==
    IF remaining = 0 THEN [ok |-> TRUE, s |-> s]
    ELSE LET chunk_size == Min(BUFFER_SIZE, remaining)
             r == copy_chunk(s, input_offset + count - remaining,
                             output_offset + count - remaining, chunk_size)
         IN  IF r.ok
             THEN copy_within_forward(r.s, input_offset, output_offset, count,
                                      remaining - chunk_size)
             ELSE r

\* ReadSeekWriteExt::copy_within (util.rs); ok = FALSE is an I/O error
copy_within(s, input_offset, count, output_offset) ==
    IF input_offset = output_offset THEN [ok |-> TRUE, s |-> s]
    ELSE IF input_offset <= output_offset /\ output_offset < count
    THEN LET buf_size == Min(output_offset - input_offset, BUFFER_SIZE)
         IN  IF count \div buf_size > 64
             THEN copy_chunk(s, input_offset, output_offset, count)
             ELSE copy_within_backward(s, input_offset, output_offset, buf_size, count)
    ELSE copy_within_forward(s, input_offset, output_offset, count, count)

-----------------------------------------------------------------------------
(* The index: base::Entry and base::PkgState (base/mod.rs) *)

\* Entry::write: five big-endian u32 written at the cursor
Entry_write(s, entry) ==
    write_all(s,
        hash_to_be_bytes(entry.path_hash)
        \o to_be_bytes_u32(BitOr(entry.relative_path_offset, entry.flags, 32))
        \o to_be_bytes_u32(entry.data_offset)
        \o to_be_bytes_u32(entry.data_size)
        \o to_be_bytes_u32(entry.unpacked_size))

\* Entry::write_empty
Entry_write_empty(s) == fill(s, 0, ENTRY_SIZE)

entry_list_offset == HEADER_SIZE

path_region_offset(st) == HEADER_SIZE + Len(st.entries) * ENTRY_SIZE

data_region_offset(st) == path_region_offset(st) + st.path_region_size

contains(st, path) == path \in DOMAIN st.path_to_entry_index_map

paths(st) == DOMAIN st.path_to_entry_index_map

\* slots i (0-based) with entries[i] occupied, ascending
OccupiedSlots(st) == {i \in 0..(Len(st.entries) - 1) : st.entries[i + 1].some}

\* A routine of base/write.rs runs on a context m = [st, io, fault, ret, copies]: the
\* index, the storage, "none" or what ended the routine early ("io": a
\* storage request failed and the driver dropped the routine; "panic"; 
\* "overflow": an arithmetic overflow, which panics or wraps by build), and
\* the routine's return value; copies counts the copy requests it issued.
Ctx(st, io) == [st |-> st, io |-> io, fault |-> "none", ret |-> "none", copies |-> 0]

\* the request `copy` inside a routine: `r` is what copy_within returned
copied(m, r) ==
    [m EXCEPT !.io = r.s, !.fault = IF r.ok THEN "none" ELSE "io", !.copies = @ + 1]

request_copy(m, from, count, to) == copied(m, copy_within(m.io, from, count, to))

\* the index's path map without / with a key
Without(f, path) == [p \in DOMAIN f \ {path} |-> f[p]]
With(f, path, v) == [p \in DOMAIN f \cup {path} |-> IF p = path THEN v ELSE f[p]]

\* the elements of a finite set of integers in ascending order
RECURSIVE Ascending(_)
Ascending(S) ==
    IF S = {} THEN <<>>
    ELSE LET lo == CHOOSE x \in S : \A y \in S : x <= y
         IN  <<lo>> \o Ascending(S \ {lo})

-----------------------------------------------------------------------------
(* Layout manager (base/write.rs) *)
(* A routine is a chain of steps, each an operator from context to context; *)
(* a step does nothing on a context whose routine has ended early.          *)

\* a create that empties the storage first
create_truncating(io) ==
    LET initial_entry_count == PREALLOCATED_ENTRY_COUNT
        initial_path_region_size == initial_entry_count * PREALLOCATED_PATH_LEN
    IN  Ctx([path_region_size |-> initial_path_region_size,
             path_region_empty_offset |-> 0,
             entries |-> [i \in 1..initial_entry_count |-> None],
             path_to_entry_index_map |-> <<>>],
            fill(write_all(EmptyStorage,
                           MAGIC \o to_be_bytes_u16(HEADER_SIZE) \o to_be_bytes_u16(ENTRY_SIZE)
                               \o to_be_bytes_u32(initial_entry_count)
                               \o to_be_bytes_u32(initial_path_region_size)),
                 0, initial_path_region_size + initial_entry_count * ENTRY_SIZE))

\* PkgState::create
create(io) ==
    LET initial_entry_count == PREALLOCATED_ENTRY_COUNT
        initial_path_region_size == initial_entry_count * PREALLOCATED_PATH_LEN
        s1 == write_all(seek_start(io, 0), MAGIC)
        s2 == write_all(s1, to_be_bytes_u16(HEADER_SIZE))
        s3 == write_all(s2, to_be_bytes_u16(ENTRY_SIZE))
        s4 == write_all(s3, to_be_bytes_u32(initial_entry_count))
        s5 == write_all(s4, to_be_bytes_u32(initial_path_region_size))
        s6 == fill(s5, 0, initial_path_region_size + initial_entry_count * ENTRY_SIZE)
    IN  Ctx([path_region_size |-> initial_path_region_size,
             path_region_empty_offset |-> 0,
             entries |-> [i \in 1..initial_entry_count |-> None],
             path_to_entry_index_map |-> <<>>],
            s6)

\* PkgState::push_back_data_region, the end of one iteration of the loop: the
\* entry is written to its slot and put back (it is not, if the copy failed)
push_back_entry_write(m, i, entry) ==
    IF m.fault # "none" THEN m
    ELSE [m EXCEPT !.io = Entry_write(seek_start(m.io, entry_list_offset + i * ENTRY_SIZE), entry),
                   !.st.entries[i + 1] = Some(entry)]

\* PkgState::push_back_data_region, one iteration of the loop for slot i: the
\* entry is taken out, its blob copied to the end of the stream
push_back_entry(m, i) ==
    LET taken == m.st.entries[i + 1].v
        new_offset == seek_end(m.io).pos
    IN  push_back_entry_write(
            request_copy([m EXCEPT !.st.entries[i + 1] = None, !.io = seek_end(m.io)],
                         taken.data_offset, taken.data_size, new_offset),
            i, [taken EXCEPT !.data_offset = new_offset])

RECURSIVE push_back_entries(_, _)
push_back_entries(m, entries_to_move) ==
    IF m.fault # "none" \/ entries_to_move = <<>> THEN m
    ELSE push_back_entries(push_back_entry(m, Head(entries_to_move)), Tail(entries_to_move))

\* PkgState::push_back_data_region
push_back_data_region(m, offset) ==
    IF m.fault # "none" THEN m
    ELSE push_back_entries(m,
            Ascending({i \in OccupiedSlots(m.st) : m.st.entries[i + 1].v.data_offset < offset}))

\* PkgState::push_back_and_resize_path_region, the copy of the path region
move_path_region(m, offset) ==
    IF m.fault # "none" THEN m
    ELSE request_copy(m, path_region_offset(m.st), m.st.path_region_size, offset)

\* a new size that reaches the index only, the header left as it was
set_path_region_size_in_memory(m, new_size) ==
    IF m.fault # "none" THEN m
    ELSE [m EXCEPT !.st.path_region_size = new_size]

\* PkgState::push_back_and_resize_path_region, the new size in the index and
\* in the header
set_path_region_size(m, new_size) ==
    IF m.fault # "none" THEN m
    ELSE [m EXCEPT !.st.path_region_size = new_size,
                   !.io = write_all(seek_start(m.io, Len(MAGIC) + 8), to_be_bytes_u32(new_size))]

\* PkgState::push_back_and_resize_path_region
push_back_and_resize_path_region(m, offset, new_size) ==
    set_path_region_size(
        move_path_region(push_back_data_region(m, offset + new_size), offset),
        new_size)

\* PkgState::reserve_path_space after push_back_data_region: the zero fill
\* from the empty offset to the new end, whose u32 length overflows when
\* path_region_empty_offset exceeds the new size
zero_new_path_space(m, new_path_region_start, new_path_region_size) ==
    IF m.fault # "none" THEN m
    ELSE IF new_path_region_size < m.st.path_region_empty_offset
         THEN [m EXCEPT !.io = seek_start(m.io, new_path_region_start + m.st.path_region_empty_offset),
                        !.fault = "overflow"]
    ELSE set_path_region_size(
            [m EXCEPT !.io = fill(seek_start(m.io, new_path_region_start + m.st.path_region_empty_offset),
                                  0, new_path_region_size - m.st.path_region_empty_offset)],
            new_path_region_size)

\* PkgState::reserve_path_space
reserve_path_space(m, amount) ==
    IF m.fault # "none" THEN m
    ELSE zero_new_path_space(
            push_back_data_region(m, path_region_offset(m.st) + m.st.path_region_size + amount),
            path_region_offset(m.st),
            m.st.path_region_size + amount)

\* PkgState::reserve_entries after push_back_and_resize_path_region: the zero
\* fill of the new slots, the longer entry list and the count in the header
grow_entry_list(m, entry_list_grow_start, amount) ==
    IF m.fault # "none" THEN m
    ELSE [m EXCEPT !.st.entries = m.st.entries \o [i \in 1..amount |-> None],
                   !.io = write_all(
                              seek_start(fill(seek_start(m.io, entry_list_grow_start), 0,
                                              amount * ENTRY_SIZE),
                                         Len(MAGIC) + 4),
                              to_be_bytes_u32(Len(m.st.entries) + amount))]

\* PkgState::reserve_entries
reserve_entries(m, amount) ==
    IF m.fault # "none" THEN m
    ELSE grow_entry_list(
            push_back_and_resize_path_region(m,
                entry_list_offset + Len(m.st.entries) * ENTRY_SIZE + amount * ENTRY_SIZE,
                m.st.path_region_size + amount * PREALLOCATED_PATH_LEN),
            entry_list_offset + Len(m.st.entries) * ENTRY_SIZE,
            amount)

\* PkgState::reserve_path_space, the contexts between its requests: after
\* push_back_data_region, after the zero fill, and after the header's
\* path_region_size is written
reserve_path_space_points(m, amount) ==
    LET new_path_region_start == path_region_offset(m.st)
        new_path_region_size == m.st.path_region_size + amount
        pushed == push_back_data_region(m, new_path_region_start + new_path_region_size)
        zeroed == [pushed EXCEPT !.io = fill(seek_start(pushed.io, new_path_region_start
                                                           + pushed.st.path_region_empty_offset),
                                             0, new_path_region_size - pushed.st.path_region_empty_offset)]
    IN  <<pushed, zeroed, set_path_region_size(zeroed, new_path_region_size)>>

\* PkgState::reserve_entries, the contexts between its requests: after
\* push_back_data_region, after the copy of the path region, after the
\* header's path_region_size is written (the end of
\* push_back_and_resize_path_region), after the zero fill of the new
\* slots, and after the header's entry_count is written
reserve_entries_points(m, amount) ==
    LET entry_list_grow_start == entry_list_offset + Len(m.st.entries) * ENTRY_SIZE
        new_path_region_offset == entry_list_grow_start + amount * ENTRY_SIZE
        new_size == m.st.path_region_size + amount * PREALLOCATED_PATH_LEN
        pushed == push_back_data_region(m, new_path_region_offset + new_size)
        moved == move_path_region(pushed, new_path_region_offset)
        sized == set_path_region_size(moved, new_size)
        zeroed == [sized EXCEPT !.io = fill(seek_start(sized.io, entry_list_grow_start), 0,
                                            amount * ENTRY_SIZE)]
    IN  <<pushed, moved, sized, zeroed, grow_entry_list(sized, entry_list_grow_start, amount)>>

\* PkgState::insert_path_into_path_region, the write of the path and its NUL
\* at the empty offset; ret is the path's relative offset
write_path(m, path) ==
    IF m.fault # "none" THEN m
    ELSE [m EXCEPT !.io = write_all(
                              write_all(seek_start(m.io, path_region_offset(m.st)
                                                           + m.st.path_region_empty_offset),
                                        path),
                              <<0>>),
                   !.st.path_region_empty_offset = m.st.path_region_empty_offset + Len(path) + 1,
                   !.ret = m.st.path_region_empty_offset]

\* PkgState::insert_path_into_path_region
insert_path_into_path_region(m, path) ==
    IF m.fault # "none" THEN m
    ELSE write_path(
            IF m.st.path_region_empty_offset + Len(path) + 1 >= m.st.path_region_size
            THEN reserve_path_space(m, Len(path) + 1 + PREALLOCATED_PATH_LEN * 32)
            ELSE m,
            path)

-----------------------------------------------------------------------------
(* Mutation primitives (base/write.rs) *)

\* a remove that closes the gap: the slots above the one it empties move
\* down by one, in the table and in the map
remove_compacting(m, path) ==
    IF contains(m.st, path)
    THEN LET entry_idx == m.st.path_to_entry_index_map[path]
             n == Len(m.st.entries)
             map == Without(m.st.path_to_entry_index_map, path)
         IN  [m EXCEPT !.st.path_to_entry_index_map =
                           [p \in DOMAIN map |-> IF map[p] > entry_idx THEN map[p] - 1 ELSE map[p]],
                       !.st.entries = [k \in 1..n |->
                                          IF k <= entry_idx THEN m.st.entries[k]
                                          ELSE IF k < n THEN m.st.entries[k + 1]
                                          ELSE None],
                       !.io = write_all(seek_start(m.io, entry_list_offset + entry_idx * ENTRY_SIZE),
                                        [k \in 1..ENTRY_SIZE |-> 0]),
                       !.ret = "Ok"]
    ELSE [m EXCEPT !.ret = "NotFound"]

\* PkgState::remove
remove(m, path) ==
    IF contains(m.st, path)
    THEN LET entry_idx == m.st.path_to_entry_index_map[path]
         IN  [m EXCEPT !.st.path_to_entry_index_map = Without(m.st.path_to_entry_index_map, path),
                       !.st.entries[entry_idx + 1] = None,
                       !.io = write_all(seek_start(m.io, entry_list_offset + entry_idx * ENTRY_SIZE),
                                        [k \in 1..ENTRY_SIZE |-> 0]),
                       !.ret = "Ok"]
    ELSE [m EXCEPT !.ret = "NotFound"]

\* PkgState::rename, the branch for a previous path that ends the used part
\* of the path region, after reserve_path_space: the new path is written at
\* the entry's relative offset, taken as a stream offset
overwrite_path(m, relative_path_offset, dst) ==
    IF m.fault # "none" THEN m
    ELSE [m EXCEPT !.io = write_all(seek_start(m.io, relative_path_offset), dst)]

\* PkgState::rename, the other branch after insert_path_into_path_region: the
\* entry's path offset is updated
set_relative_path_offset(m, entry_idx) ==
    IF m.fault # "none" THEN m
    ELSE [m EXCEPT !.st.entries[entry_idx + 1].v.relative_path_offset = m.ret]

\* PkgState::rename, the end: the map gets the new key and the entry is
\* written to its slot, path_hash as it was
write_renamed(m, entry_idx, dst) ==
    IF m.fault # "none" THEN m
    ELSE [m EXCEPT !.st.path_to_entry_index_map = With(m.st.path_to_entry_index_map, dst, entry_idx),
                   !.io = Entry_write(seek_start(m.io, entry_list_offset + entry_idx * ENTRY_SIZE),
                                      m.st.entries[entry_idx + 1].v),
                   !.ret = "Ok"]

\* PkgState::rename, after the two checks; dst.len() - src.len() overflows
\* in the first branch when dst is the shorter
rename_present(m, src, dst) ==
    LET entry_idx == m.st.path_to_entry_index_map[src]
        old == m.st.entries[entry_idx + 1].v
        m0 == [m EXCEPT !.st.path_to_entry_index_map = Without(m.st.path_to_entry_index_map, src),
                        !.st.entries[entry_idx + 1] = Some([old EXCEPT !.path = dst])]
    IN  write_renamed(
            IF old.relative_path_offset + Len(src) = m.st.path_region_empty_offset
            THEN (IF Len(dst) < Len(src) THEN [m0 EXCEPT !.fault = "overflow"]
                  ELSE overwrite_path(reserve_path_space(m0, Len(dst) - Len(src)),
                                      old.relative_path_offset, dst))
            ELSE set_relative_path_offset(insert_path_into_path_region(m0, dst), entry_idx),
            entry_idx, dst)

\* a rename that does not look for dst
rename_over(m, src, dst) ==
    IF ~contains(m.st, src) THEN [m EXCEPT !.ret = "NotFound"]
    ELSE rename_present(m, src, dst)

\* PkgState::rename
rename(m, src, dst) ==
    IF ~contains(m.st, src) THEN [m EXCEPT !.ret = "NotFound"]
    ELSE IF contains(m.st, dst) THEN [m EXCEPT !.ret = "AlreadyExists"]
    ELSE rename_present(m, src, dst)

\* a take-over that leaves the record of src in the storage
take_over_unerased(m, src, dst) ==
    LET one_idx == m.st.path_to_entry_index_map[src]
        two_idx == m.st.path_to_entry_index_map[dst]
        one == m.st.entries[one_idx + 1].v
        m1 == [m EXCEPT !.st.entries[one_idx + 1] = None,
                        !.st.path_to_entry_index_map = Without(m.st.path_to_entry_index_map, src)]
        two == [m.st.entries[two_idx + 1].v EXCEPT
                    !.data_offset = one.data_offset,
                    !.data_size = one.data_size,
                    !.unpacked_size = one.unpacked_size,
                    !.flags = one.flags]
    IN  IF two_idx = one_idx
        THEN [m1 EXCEPT !.fault = "panic"]
        ELSE [m1 EXCEPT !.st.entries[two_idx + 1] = Some(two),
                        !.io = Entry_write(
                                   seek_start(m.io, entry_list_offset + two_idx * ENTRY_SIZE),
                                   two),
                        !.ret = "Ok"]

\* PkgState::replace, the arm (Some(one_idx), Some(two_idx))
replace_take_over(m, src, dst) ==
    LET one_idx == m.st.path_to_entry_index_map[src]
        two_idx == m.st.path_to_entry_index_map[dst]
        one == m.st.entries[one_idx + 1].v
        m1 == [m EXCEPT !.st.entries[one_idx + 1] = None,
                        !.st.path_to_entry_index_map = Without(m.st.path_to_entry_index_map, src)]
        two == [m.st.entries[two_idx + 1].v EXCEPT
                    !.data_offset = one.data_offset,
                    !.data_size = one.data_size,
                    !.unpacked_size = one.unpacked_size,
                    !.flags = one.flags]
    IN  IF two_idx = one_idx
        THEN [m1 EXCEPT !.fault = "panic"]    \* unwrap on the slot just taken
        ELSE [m1 EXCEPT !.st.entries[two_idx + 1] = Some(two),
                        !.io = Entry_write(
                                   seek_start(
                                       Entry_write_empty(
                                           seek_start(m.io, entry_list_offset + one_idx * ENTRY_SIZE)),
                                       entry_list_offset + two_idx * ENTRY_SIZE),
                                   two),
                        !.ret = "Ok"]

\* PkgState::replace, the arm (Some(_), None) after rename
forget_src(m, src) ==
    IF m.fault # "none" THEN m
    ELSE [m EXCEPT !.st.path_to_entry_index_map = Without(m.st.path_to_entry_index_map, src),
                   !.ret = "Ok"]

\* PkgState::replace
replace(m, src, dst) ==
    IF ~contains(m.st, src) THEN [m EXCEPT !.ret = "NotFound"]
    ELSE IF contains(m.st, dst) THEN replace_take_over(m, src, dst)
    ELSE forget_src(rename(m, src, dst), src)

-----------------------------------------------------------------------------
(* Repack (base/write.rs) *)

\* lexicographic order on pairs: (data_offset, data_size), or a hash's halves
pair_le(a, b) == a[1] < b[1] \/ (a[1] = b[1] /\ a[2] <= b[2])

\* slice::sort_by / sort_by_key (stable): `seq` ordered by key, where keys[k]
\* is the key of seq[k]; elements with equal keys keep their order
stable_sort(seq, keys) ==
    IF Len(seq) <= 1 THEN seq
    ELSE LET n == Len(seq)
             \* position of seq[k] in the result
             rank(k) == Cardinality({j \in 1..n :
                            \/ ~pair_le(keys[k], keys[j])
                            \/ (j < k /\ pair_le(keys[k], keys[j]) /\ pair_le(keys[j], keys[k]))})
         IN  [r \in 1..n |-> seq[CHOOSE k \in 1..n : rank(k) = r - 1]]

\* PkgState::write_packed_path_region_at, the loop from entry k on; ret
\* counts the size
RECURSIVE write_packed_paths(_, _, _)
write_packed_paths(m, offset, k) ==
    IF k > Len(m.st.entries) THEN m
    ELSE write_packed_paths(
             [m EXCEPT !.st.entries[k].v.relative_path_offset = m.io.pos - offset,
                       !.io = write_all(write_all(m.io, m.st.entries[k].v.path), <<0>>),
                       !.ret = m.ret + Len(m.st.entries[k].v.path) + 1],
             offset, k + 1)

\* PkgState::write_packed_path_region_at; ret is the packed size
write_packed_path_region_at(m, offset) ==
    write_packed_paths([m EXCEPT !.io = seek_start(m.io, offset), !.ret = 0], offset, 1)

\* a repack that leaves a byte between two blobs
defragmented_gap(m, k, current_data_offset, data_size) ==
    IF m.fault # "none" THEN m
    ELSE [m EXCEPT !.st.entries[k].v.data_offset = current_data_offset,
                   !.ret = current_data_offset + data_size + 1]

\* PkgState::repack, one iteration of the loop that defragments the data
\* region, after its copy request; ret is current_data_offset
defragmented(m, k, current_data_offset, data_size) ==
    IF m.fault # "none" THEN m
    ELSE [m EXCEPT !.st.entries[k].v.data_offset = current_data_offset,
                   !.ret = current_data_offset + data_size]

\* a repack that copies every blob, also one that is in its place already
RECURSIVE defragment_always(_, _)
defragment_always(m, k) ==
    IF m.fault # "none" \/ k > Len(m.st.entries) THEN m
    ELSE defragment_always(
             defragmented(
                 request_copy(m, m.st.entries[k].v.data_offset,
                              m.st.entries[k].v.data_size, m.ret),
                 k, m.ret, m.st.entries[k].v.data_size),
             k + 1)

\* PkgState::repack, the loop that defragments the data region from entry k
\* on; ret is current_data_offset
RECURSIVE defragment(_, _)
defragment(m, k) ==
    IF m.fault # "none" \/ k > Len(m.st.entries) THEN m
    ELSE defragment(
             defragmented(
                 IF m.ret # m.st.entries[k].v.data_offset
                 THEN request_copy(m, m.st.entries[k].v.data_offset,
                                   m.st.entries[k].v.data_size, m.ret)
                 ELSE m,
                 k, m.ret, m.st.entries[k].v.data_size),
             k + 1)

\* PkgState::repack, the loop that writes the entry list from entry k on
RECURSIVE write_entries(_, _, _)
write_entries(s, entries, k) ==
    IF k > Len(entries) THEN s
    ELSE write_entries(IF entries[k].some THEN Entry_write(s, entries[k].v)
                       ELSE fill(s, 0, ENTRY_SIZE),
                       entries, k + 1)

\* PkgState::repack: the occupied entries in slot order, sorted by
\* (data_offset, data_size)
sort_by_data_offset(entries) ==
    LET occupied == Ascending({k \in 1..Len(entries) : entries[k].some})
        compact == [k \in 1..Len(occupied) |-> entries[occupied[k]]]
    IN  stable_sort(compact,
            [k \in 1..Len(compact) |-> <<compact[k].v.data_offset, compact[k].v.data_size>>])

\* PkgState::repack: sort_by_key(path_hash)
sort_by_path_hash(entries) ==
    stable_sort(entries, [k \in 1..Len(entries) |-> entries[k].v.path_hash])

\* PkgState::repack: the sum of path.len() + 1 over entries[1..k]
RECURSIVE packed_path_size(_, _)
packed_path_size(entries, k) ==
    IF k = 0 THEN 0 ELSE packed_path_size(entries, k - 1) + Len(entries[k].v.path) + 1

\* a repack that leaves the map as it was
reindex_stale(map, entries) == map

\* PkgState::repack, the map update: every entry's key gets the entry's new
\* index, the last entry winning when two carry the same path
reindex(map, entries) ==
    [p \in DOMAIN map |->
        IF \E k \in 1..Len(entries) : entries[k].v.path = p
        THEN (CHOOSE k \in 1..Len(entries) :
                /\ entries[k].v.path = p
                /\ \A j \in (k + 1)..Len(entries) : entries[j].v.path # p) - 1
        ELSE map[p]]

\* PkgState::repack from the sort by hash on: the map update (an unwrap on a
\* missing key panics), the header, the entry list, the truncation
rewrite_entry_list(m, path_region_size) ==
    IF m.fault # "none" THEN m
    ELSE IF \E k \in 1..Len(m.st.entries) : ~contains(m.st, m.st.entries[k].v.path)
         THEN [m EXCEPT !.fault = "panic"]
    ELSE [m EXCEPT !.st.path_to_entry_index_map = reindex(m.st.path_to_entry_index_map, m.st.entries),
                   !.io = truncate(
                              write_entries(
                                  write_all(
                                      write_all(seek_start(m.io, Len(MAGIC) + 4),
                                                to_be_bytes_u32(Len(m.st.entries))),
                                      to_be_bytes_u32(path_region_size)),
                                  m.st.entries, 1),
                              m.ret),
                   !.ret = "Ok"]

\* PkgState::repack, the sort by hash after the defragmentation
sorted_by_path_hash(m) ==
    IF m.fault # "none" THEN m
    ELSE [m EXCEPT !.st.entries = sort_by_path_hash(m.st.entries)]

\* PkgState::repack, the packed path region: its size in the index, and
\* current_data_offset in ret
packed_paths(m, data_region_start) ==
    [m EXCEPT !.st.path_region_size = m.ret, !.ret = data_region_start]

\* PkgState::repack on the compacted and sorted entries
repack_sorted(m) ==
    LET path_region_size == packed_path_size(m.st.entries, Len(m.st.entries))
        data_region_start == path_region_offset(m.st) + path_region_size
    IN  IF \E k \in 1..(Len(m.st.entries) - 1) :
               m.st.entries[k].v.data_offset + m.st.entries[k].v.data_size
                   > m.st.entries[k + 1].v.data_offset
        THEN [m EXCEPT !.ret = "OverlappingEntries"]
        ELSE IF data_region_start > data_region_offset(m.st)
             THEN [m EXCEPT !.fault = "panic"]     \* assert!
        ELSE rewrite_entry_list(
                 sorted_by_path_hash(
                     defragment(
                         packed_paths(
                             write_packed_path_region_at(m, path_region_offset(m.st)),
                             data_region_start),
                         1)),
                 path_region_size)

\* PkgState::repack
repack(m) == repack_sorted([m EXCEPT !.st.entries = sort_by_data_offset(m.st.entries)])

-----------------------------------------------------------------------------
(* The codec behind flate2::Compress / Decompress, kept abstract: a stream is
   a marker byte, the length of the input, the input bytes each turned by
   ZTurn, and a check byte.  The compressor buffers its input and emits the
   whole stream on the finishing flush. *)

ZHEADER == <<120>>
ZTurn(b) == (b + 101) % 256
ZUnturn(b) == (b + 155) % 256

RECURSIVE ByteSum(_)
ByteSum(bytes) == IF bytes = <<>> THEN 0 ELSE (Head(bytes) + ByteSum(Tail(bytes))) % 251

zlib_stream(input) ==
    ZHEADER \o <<Len(input)>> \o [k \in 1..Len(input) |-> ZTurn(input[k])] \o <<ByteSum(input) + 1>>

\* Compress::new(level, true)
Compress_new == [pending |-> <<>>, finished |-> FALSE]

\* Decompress::decompress over the stored bytes of a blob, run to the end of
\* the input: the output, or an error on a stream that does not start with
\* the marker; a stream cut short yields the bytes decoded so far
zlib_decode(stored) ==
    IF Len(stored) = 0 THEN [ok |-> TRUE, out |-> <<>>]
    ELSE IF stored[1] # ZHEADER[1] THEN [ok |-> FALSE, out |-> <<>>]
    ELSE IF Len(stored) = 1 THEN [ok |-> TRUE, out |-> <<>>]
    ELSE LET n == Min(stored[2], Len(stored) - 2)
         IN  [ok |-> TRUE, out |-> [k \in 1..n |-> ZUnturn(stored[k + 2])]]

-----------------------------------------------------------------------------
(* insert and the write handle (base/write.rs) *)

NoHandle == [live |-> FALSE]

\* a slot selection that takes the last empty slot
last_empty_slot(st) ==
    LET empty == {i \in 0..(Len(st.entries) - 1) : ~st.entries[i + 1].some}
    IN  IF empty # {} THEN CHOOSE i \in empty : \A j \in empty : i >= j
        ELSE Len(st.entries)

\* PkgState::insert, the slot: the first empty one, or the first of a
\* grown entry list
first_empty_slot(st) ==
    LET empty == {i \in 0..(Len(st.entries) - 1) : ~st.entries[i + 1].some}
    IN  IF empty # {} THEN CHOOSE i \in empty : \A j \in empty : i <= j
        ELSE Len(st.entries)

\* PkgState::insert, the path mapped to its slot
map_path(m, path, entry_slot) ==
    IF m.fault # "none" THEN m
    ELSE [m EXCEPT !.st.path_to_entry_index_map =
                       With(m.st.path_to_entry_index_map, path, entry_slot)]

\* an insert that puts the new blob at the start of the data region
new_handle_at_data_region(m, path, compression, entry_slot) ==
    IF m.fault # "none" THEN m
    ELSE [m EXCEPT !.io = seek_start(m.io, data_region_offset(m.st)),
                   !.ret = [live |-> TRUE,
                            deflate |-> compression,
                            offset |-> data_region_offset(m.st),
                            cursor |-> 0,
                            size |-> 0,
                            unpacked_size |-> 0,
                            compress |-> Compress_new,
                            path |-> path,
                            relative_path_offset |-> m.ret,
                            entry_slot |-> entry_slot]]

\* PkgState::insert, the end: the seek to the end of the stream and the
\* WriteHandle
new_handle(m, path, compression, entry_slot) ==
    IF m.fault # "none" THEN m
    ELSE [m EXCEPT !.io = seek_end(m.io),
                   !.ret = [live |-> TRUE,
                            deflate |-> compression,
                            offset |-> seek_end(m.io).pos,
                            cursor |-> 0,
                            size |-> 0,
                            unpacked_size |-> 0,
                            compress |-> Compress_new,
                            path |-> path,
                            relative_path_offset |-> m.ret,
                            entry_slot |-> entry_slot]]

\* an insert that does not look for the path
insert_unchecked(m, path, compression) ==
    new_handle(
        insert_path_into_path_region(
            map_path(IF first_empty_slot(m.st) = Len(m.st.entries)
                     THEN reserve_entries(m, PREALLOCATED_ENTRY_COUNT)
                     ELSE m,
                     path, first_empty_slot(m.st)),
            path),
        path, compression, first_empty_slot(m.st))

\* PkgState::insert; ret is the WriteHandle unless the path exists
insert(m, path, compression) ==
    IF contains(m.st, path) THEN m
    ELSE new_handle(
             insert_path_into_path_region(
                 map_path(IF first_empty_slot(m.st) = Len(m.st.entries)
                          THEN reserve_entries(m, PREALLOCATED_ENTRY_COUNT)
                          ELSE m,
                          path, first_empty_slot(m.st)),
                 path),
             path, compression, first_empty_slot(m.st))

\* GeneratorWrite for RawReadWriteHandle
Raw_write(h, io, buf) ==
    LET s1 == write(io, buf)
        written == Len(buf)
    IN  [h |-> [h EXCEPT !.size = h.size + written, !.cursor = h.cursor + written],
         io |-> s1, fault |-> "none"]

\* GeneratorWrite for DeflateWriteHandle: compress_vec with FlushCompress::None
\* takes the whole buffer and puts out nothing yet; on a compressor that has
\* finished it is an error, which is unwrapped
Deflate_write(h, io, buf) ==
    IF h.compress.finished THEN [h |-> h, io |-> io, fault |-> "panic"]
    ELSE LET out == <<>>
             written == Len(buf)
         IN  [h |-> [h EXCEPT !.compress.pending = h.compress.pending \o buf,
                              !.size = h.size + Len(out),
                              !.unpacked_size = h.unpacked_size + written],
              io |-> write_all(io, out), fault |-> "none"]

\* GeneratorWrite for WriteHandle
WriteHandle_write(h, io, buf) ==
    IF h.deflate THEN Deflate_write(h, io, buf) ELSE Raw_write(h, io, buf)

\* DeflateWriteHandle::flush: compress_vec with FlushCompress::Finish until it
\* puts out nothing
Deflate_flush(h, io) ==
    LET out == IF h.compress.finished THEN <<>> ELSE zlib_stream(h.compress.pending)
    IN  [h |-> [h EXCEPT !.compress = [pending |-> <<>>, finished |-> TRUE],
                         !.size = h.size + Len(out)],
         io |-> write_all(io, out)]

\* a finalization that records the stored size as the unpacked size
flush_internal_stored_size(m, h) ==
    LET f == IF h.deflate THEN Deflate_flush(h, m.io) ELSE [h |-> h, io |-> m.io]
        entry == [data_offset |-> f.h.offset,
                  data_size |-> f.h.size,
                  unpacked_size |-> f.h.size,
                  path_hash |-> pkg_path_hash(h.path),
                  relative_path_offset |-> h.relative_path_offset,
                  path |-> h.path,
                  flags |-> IF h.deflate THEN DEFLATED ELSE 0]
        s1 == seek_start(f.io, entry_list_offset + h.entry_slot * ENTRY_SIZE)
        s2 == Entry_write(s1, entry)
    IN  [m EXCEPT !.io = s2, !.st.entries[h.entry_slot + 1] = Some(entry), !.ret = f.h]

\* WriteHandle::flush_internal on the context m; ret is the handle
flush_internal(m, h) ==
    LET f == IF h.deflate THEN Deflate_flush(h, m.io) ELSE [h |-> h, io |-> m.io]
        entry == [data_offset |-> f.h.offset,
                  data_size |-> f.h.size,
                  unpacked_size |-> IF h.deflate THEN f.h.unpacked_size ELSE f.h.size,
                  path_hash |-> pkg_path_hash(h.path),
                  relative_path_offset |-> h.relative_path_offset,
                  path |-> h.path,
                  flags |-> IF h.deflate THEN DEFLATED ELSE 0]
        s1 == seek_start(f.io, entry_list_offset + h.entry_slot * ENTRY_SIZE)
        s2 == Entry_write(s1, entry)
    IN  [m EXCEPT !.io = s2, !.st.entries[h.entry_slot + 1] = Some(entry), !.ret = f.h]

\* WriteHandle::flush, the seek back to where the handle was
seek_back(m, pos) == [m EXCEPT !.io = seek_start(m.io, pos)]

\* WriteHandle::flush
WriteHandle_flush(m, h) ==
    seek_back(flush_internal(m, h), h.offset + (IF h.deflate THEN h.size ELSE h.cursor))

\* WriteHandle::finish
WriteHandle_finish(m, h) == flush_internal(m, h)


-----------------------------------------------------------------------------
(* parse (base/parse.rs) and open (base/read.rs) *)

\* the first offset in [lo, hi) that holds a zero byte, or hi
RECURSIVE first_zero(_, _, _)
first_zero(s, lo, hi) ==
    IF lo >= hi THEN hi
    ELSE IF hi - lo = 1 THEN (IF Byte(s, lo) = 0 THEN lo ELSE hi)
    ELSE LET mid == (lo + hi) \div 2
             left == first_zero(s, lo, mid)
         IN  IF left < mid THEN left ELSE first_zero(s, mid, hi)

\* the last offset in [lo, hi) of the storage that holds a non-zero byte, or
\* lo - 1 when all of them are zero
RECURSIVE last_nonzero(_, _, _)
last_nonzero(s, lo, hi) ==
    IF hi <= lo THEN lo - 1
    ELSE IF hi - lo = 1 THEN (IF Byte(s, lo) # 0 THEN lo ELSE lo - 1)
    ELSE LET mid == (lo + hi) \div 2
             right == last_nonzero(s, mid, hi)
         IN  IF right >= mid THEN right ELSE last_nonzero(s, lo, mid)

\* check_magic: four reads of one byte each
check_magic(s) == s.len >= Len(MAGIC) /\ \A k \in 1..Len(MAGIC) : Byte(s, k - 1) = MAGIC[k]

\* parse, the record at slot i: flag bits that are no known flag are an
\* error, a data_offset of zero is an empty slot
parse_record(s, i) ==
    LET at == HEADER_SIZE + i * ENTRY_SIZE
        rec == Slice(s, at, ENTRY_SIZE)
        path_offset == rec[6] * 65536 + rec[7] * 256 + rec[8]
        flag_byte == rec[5]
        data_offset == as_u32_be(SubSeq(rec, 9, 12))
    IN  [bad_flags |-> flag_byte \notin {0, 1},
         slot |-> IF data_offset = 0 THEN None
                  ELSE Some([path_hash |-> hash_from_be_bytes(SubSeq(rec, 1, 4)),
                             relative_path_offset |-> path_offset,
                             path |-> <<>>,
                             data_offset |-> data_offset,
                             data_size |-> as_u32_be(SubSeq(rec, 13, 16)),
                             unpacked_size |-> as_u32_be(SubSeq(rec, 17, 20)),
                             flags |-> flag_byte * DEFLATED])]

\* parse, the path of an entry: the bytes of the path blob from its offset up
\* to the first NUL or the end of the blob
parse_path(s, region, size, rel) ==
    Slice(s, region + rel, first_zero(s, region + rel, region + size) - (region + rel))

\* parse(expect_magic = true) of the storage: ret is "Ok" with the state, or
\* the ParseError, or "Io" (a read_exact past the end), or "panic"
parse(s) ==
    LET entry_count == as_u32_be(Slice(s, 8, 4))
        path_region_size == as_u32_be(Slice(s, 12, 4))
        region == HEADER_SIZE + entry_count * ENTRY_SIZE
        records == [k \in 1..entry_count |-> parse_record(s, k - 1)]
        occupied == {k \in 1..entry_count : records[k].slot.some}
        rel(k) == records[k].slot.v.relative_path_offset
        path == [k \in 1..entry_count |->
                    IF records[k].slot.some /\ rel(k) <= path_region_size
                    THEN parse_path(s, region, path_region_size, rel(k))
                    ELSE <<>>]
        entries == [k \in 1..entry_count |->
                        IF records[k].slot.some
                        THEN Some([records[k].slot.v EXCEPT !.path = path[k]])
                        ELSE None]
        \* what stops the loop over the entries at k, if anything
        out_of_range(k) == rel(k) > path_region_size
        non_ascii(k) == LET p == path[k] IN \E j \in 1..Len(p) : p[j] >= 128
        same_path(k) == \E j \in occupied : j < k /\ path[j] = path[k]
        stops == {k \in occupied : out_of_range(k) \/ non_ascii(k) \/ same_path(k)}
        first == CHOOSE k \in stops : \A j \in stops : k <= j
        trailing_zeros == region + path_region_size - 1
                            - last_nonzero(s, region, region + path_region_size)
        err(e) == [ret |-> e, st |-> None]
    IN  IF ~check_magic(s) THEN err("MismatchedMagic")
        ELSE IF s.len < 8 THEN err("Io")
        ELSE IF as_u16_be(Slice(s, 4, 2)) # HEADER_SIZE THEN err("MismatchedHeaderSize")
        ELSE IF as_u16_be(Slice(s, 6, 2)) # ENTRY_SIZE THEN err("MismatchedEntrySize")
        ELSE IF s.len < 16 THEN err("Io")
        ELSE IF HEADER_SIZE + entry_count * ENTRY_SIZE > s.len THEN err("EntryOverflow")
        ELSE IF HEADER_SIZE + entry_count * ENTRY_SIZE + path_region_size > s.len
             THEN err("PathOverflow")
        ELSE IF \E k \in 1..entry_count : records[k].bad_flags
             THEN err("UnrecognisedEntryFlags")
        ELSE IF stops # {}
             THEN err(IF out_of_range(first) THEN "panic"
                      ELSE IF non_ascii(first) THEN "NonAsciiPath" ELSE "SamePath")
        ELSE [ret |-> "Ok",
              st |-> Some([path_region_size |-> path_region_size,
                           path_region_empty_offset |-> path_region_size - (trailing_zeros - 1),
                           entries |-> entries,
                           path_to_entry_index_map |->
                               [p \in {path[k] : k \in occupied} |->
                                   (CHOOSE k \in occupied : path[k] = p) - 1]])]

\* open followed by Read::read_to_end on the reader, as `extract` of
\* tests/sync.rs does: ret is "NotFound", "panic" (an unwrap on an empty slot
\* or on a decompression error) or "Ok" with the bytes read
open_read_to_end(st, s, path) ==
    IF ~contains(st, path) THEN [ret |-> "NotFound", bytes |-> <<>>]
    ELSE IF st.path_to_entry_index_map[path] >= Len(st.entries)
         THEN [ret |-> "panic", bytes |-> <<>>]          \* index out of bounds
    ELSE LET slot == st.entries[st.path_to_entry_index_map[path] + 1]
             entry == slot.v
             \* RawReadWriteHandle::read asks for at most size - cursor bytes and
             \* the storage returns what is left of it
             left == IF entry.data_offset >= s.len THEN 0
                     ELSE Min(entry.data_size, s.len - entry.data_offset)
             stored == Slice(s, entry.data_offset, left)
             decoded == zlib_decode(stored)
         IN  IF ~slot.some THEN [ret |-> "panic", bytes |-> <<>>]
             ELSE IF BitAnd(entry.flags \div DEFLATED, 1, 1) = 1
                  THEN (IF decoded.ok THEN [ret |-> "Ok", bytes |-> decoded.out]
                        ELSE [ret |-> "panic", bytes |-> <<>>])
             ELSE [ret |-> "Ok", bytes |-> stored]

-----------------------------------------------------------------------------
(* Entry handles read and sought step by step (base/read.rs, sync.rs).  A   *)
(* handle here is [live, writer, deflate, offset, cursor, size, done,        *)
(* decompress, path]; decompress is what the Decompress has consumed of the  *)
(* stream and the payload length it has read from it.                        *)

\* base::open: the seek to the blob and the ReadHandle
open(st, s, path) ==
    IF ~contains(st, path) THEN [ret |-> "NotFound", io |-> s]
    ELSE LET entry == st.entries[st.path_to_entry_index_map[path] + 1].v
         IN  [ret |-> "Ok",
              io |-> seek_start(s, entry.data_offset),
              h |-> [live |-> TRUE,
                     writer |-> FALSE,
                     deflate |-> BitAnd(entry.flags \div DEFLATED, 1, 1) = 1,
                     offset |-> entry.data_offset,
                     cursor |-> 0,
                     size |-> entry.data_size,
                     done |-> FALSE,
                     decompress |-> [total_in |-> 0, len |-> 0],
                     path |-> path]]

\* RawReadWriteHandle::read into a buffer of `len` bytes
RawReadWriteHandle_read(h, io, len) ==
    LET end == Min(h.cursor + len, h.size)
        count == end - h.cursor
        value == read(io, count)
    IN  [h |-> [h EXCEPT !.cursor = h.cursor + count],
         io |-> value.s, ret |-> "Ok", got |-> value.bytes]

\* RawReadWriteHandle::seek; checked_add_signed is None below zero
RawReadWriteHandle_seek(h, io, whence, n) ==
    CASE whence = "Start" ->
            [h |-> h, io |-> seek_start(io, h.offset + n), ret |-> "Ok", value |-> n]
      [] whence = "End" ->
            IF h.size + n < 0
            THEN [h |-> h, io |-> io, ret |-> "SeekOutOfBounds", value |-> 0]
            ELSE [h |-> h, io |-> seek_start(io, h.size + n + h.offset), ret |-> "Ok",
                  value |-> h.size + n]
      [] whence = "Current" ->
            IF h.cursor + n < 0
            THEN [h |-> h, io |-> io, ret |-> "SeekOutOfBounds", value |-> 0]
            ELSE [h |-> h, io |-> seek_start(io, h.offset + h.cursor + n), ret |-> "Ok",
                  value |-> h.cursor + n]

\* Decompress::decompress of the abstract codec: `at` bytes of the stream
\* are consumed already and `len` is the payload length once read; consumes
\* `input` while it can and puts out at most `space` bytes
RECURSIVE inflate(_, _, _, _, _)
inflate(at, len, input, space, out) ==
    IF input = <<>> THEN [total_in |-> at, len |-> len, out |-> out, status |-> "Ok"]
    ELSE IF at = 0
         THEN (IF Head(input) # ZHEADER[1]
               THEN [total_in |-> at, len |-> len, out |-> out, status |-> "Err"]
               ELSE inflate(1, len, Tail(input), space, out))
    ELSE IF at = 1 THEN inflate(2, Head(input), Tail(input), space, out)
    ELSE IF at < 2 + len
         THEN (IF space = 0
               THEN [total_in |-> at, len |-> len, out |-> out, status |-> "Ok"]
               ELSE inflate(at + 1, len, Tail(input), space - 1,
                            Append(out, ZUnturn(Head(input)))))
    ELSE [total_in |-> at + 1, len |-> len, out |-> out, status |-> "StreamEnd"]

\* DeflateReadHandle::read, the loop while the buffer has `space` left
RECURSIVE DeflateReadHandle_loop(_, _, _, _)
DeflateReadHandle_loop(h, io, space, got) ==
    IF space = 0 THEN [h |-> h, io |-> io, ret |-> "Ok", got |-> got]
    ELSE LET end == Min(h.cursor + BUFFER_SIZE \div 2, h.size)
             count == end - h.cursor
             input == read(seek_start(io, h.offset + h.cursor), count)
             d == inflate(h.decompress.total_in, h.decompress.len, input.bytes, space, <<>>)
             read_now == Len(d.out)
             consumed_now == d.total_in - h.decompress.total_in
             h1 == [h EXCEPT !.cursor = h.cursor + consumed_now,
                             !.decompress = [total_in |-> d.total_in, len |-> d.len]]
         IN  IF d.status = "Err"
             THEN [h |-> h, io |-> input.s, ret |-> "panic", got |-> <<>>]    \* unwrap
             ELSE IF d.status = "StreamEnd"
             THEN [h |-> [h1 EXCEPT !.done = TRUE], io |-> input.s, ret |-> "Ok",
                   got |-> got \o d.out]
             ELSE IF read_now = 0 /\ consumed_now = 0
             THEN [h |-> [h1 EXCEPT !.done = TRUE], io |-> input.s, ret |-> "Ok", got |-> got]
             ELSE DeflateReadHandle_loop(h1, input.s, space - read_now, got \o d.out)

\* DeflateReadHandle::read into a buffer of `len` bytes
DeflateReadHandle_read(h, io, len) ==
    IF h.done THEN [h |-> h, io |-> io, ret |-> "Ok", got |-> <<>>]
    ELSE DeflateReadHandle_loop(h, io, len, <<>>)

\* <EntryReader as Read>::read and <EntryWriter as Read>::read
Entry_read(h, io, len) ==
    IF ~h.deflate THEN RawReadWriteHandle_read(h, io, len)
    ELSE IF h.writer THEN [h |-> h, io |-> io, ret |-> "NotReadable", got |-> <<>>]
    ELSE DeflateReadHandle_read(h, io, len)

\* a seek that treats every handle as a raw one
seek_through(h, io, whence, n) == RawReadWriteHandle_seek(h, io, whence, n)

\* <EntryReader as Seek>::seek and <EntryWriter as Seek>::seek
Entry_seek(h, io, whence, n) ==
    IF h.deflate THEN [h |-> h, io |-> io, ret |-> "NotSeekable", value |-> 0]
    ELSE RawReadWriteHandle_seek(h, io, whence, n)

-----------------------------------------------------------------------------
(* The calls a program makes on sync::Pkg<Cursor<Vec<u8>>> *)

\* bounds of the exploration
MaxOps == 2
MaxBlob == 1

Insert_call(path, deflate) ==
    [op |-> "insert", path |-> path, dst |-> <<>>, deflate |-> deflate, buf |-> <<>>]
Write_call(buf) ==
    [op |-> "write", path |-> <<>>, dst |-> <<>>, deflate |-> FALSE, buf |-> buf]
Flush_call ==
    [op |-> "flush", path |-> <<>>, dst |-> <<>>, deflate |-> FALSE, buf |-> <<>>]
Finish_call ==
    [op |-> "finish", path |-> <<>>, dst |-> <<>>, deflate |-> FALSE, buf |-> <<>>]
Remove_call(path) ==
    [op |-> "remove", path |-> path, dst |-> <<>>, deflate |-> FALSE, buf |-> <<>>]
Rename_call(src, dst) ==
    [op |-> "rename", path |-> src, dst |-> dst, deflate |-> FALSE, buf |-> <<>>]
Replace_call(src, dst) ==
    [op |-> "replace", path |-> src, dst |-> dst, deflate |-> FALSE, buf |-> <<>>]
Repack_call ==
    [op |-> "repack", path |-> <<>>, dst |-> <<>>, deflate |-> FALSE, buf |-> <<>>]

\* the paths "a", "b" and "C", the one-byte buffers, a path of n letters and
\* a blob of n bytes
PathA == <<97>>
PathB == <<98>>
PathC == <<67>>
Paths == {PathA, PathB, PathC}
Bufs == {<<170>>, <<187>>}
LongPath(n) == [k \in 1..n |-> 122]
BigBlob(n) == [k \in 1..n |-> IF k = 1 THEN 171 ELSE IF k = n THEN 205 ELSE 0]

\* insert followed by one write and the end of the writer, as `add` of
\* tests/sync.rs does
Add(path, deflate, data) == <<Insert_call(path, deflate), Write_call(data), Finish_call>>

\* the calls a run starts with, before it goes on with any calls
Scripts ==
    { <<>>,
      \* one small entry, packed
      Add(PathA, FALSE, <<170>>) \o <<Repack_call>>,
      \* one entry larger than the tables of a fresh archive, packed
      Add(PathA, FALSE, BigBlob(3300)) \o <<Repack_call>>,
      \* two entries, one renamed
      Add(PathA, FALSE, <<170>>) \o Add(PathB, TRUE, <<187>>) \o <<Rename_call(PathA, PathC)>>,
      \* a full path region's worth of path, removed and packed away
      Add(PathA, FALSE, <<170>>) \o Add(PathB, FALSE, <<187>>)
          \o Add(LongPath(961), FALSE, <<>>)
          \o <<Remove_call(LongPath(961)), Repack_call, Remove_call(PathB)>>,
      \* a path that fills the path region of a fresh archive
      Add(PathA, FALSE, <<170>>) \o <<Insert_call(LongPath(1925), FALSE), Finish_call>>,
      \* an emptied archive that grows its entry table again, then two
      \* entries, the second with a long path, packed
      <<Repack_call>> \o Add(PathC, FALSE, <<170>>) \o Add(LongPath(1240), FALSE, <<>>)
          \o <<Repack_call>>,
      \* an emptied archive that grows its entry table again for one entry
      <<Repack_call>> \o Add(PathC, FALSE, <<170>>) }

FreeCalls(h) ==
    IF h.live
    THEN {Write_call(buf) : buf \in Bufs} \cup {Flush_call, Finish_call}
    ELSE {Insert_call(path, deflate) : path \in Paths, deflate \in BOOLEAN}
           \cup {Remove_call(path) : path \in Paths}
           \cup {Rename_call(src, dst) : src \in Paths, dst \in Paths}
           \cup {Replace_call(src, dst) : src \in Paths, dst \in Paths}
           \cup {Repack_call}

\* what ends a run: the caller saw an I/O error or the process panicked; an
\* arithmetic overflow panics or wraps by build, and the wrapped length is a
\* zero fill of close to 2^32 bytes
Dead == {"Io", "panic", "wrap"}

Outcomes(m) ==
    CASE m.fault = "none" -> {m.ret}
      [] m.fault = "io" -> {"Io"}
      [] m.fault = "panic" -> {"panic"}
      [] m.fault = "overflow" -> {"panic", "wrap"}

\* the calls the program may make next
Pending ==
    IF last.ret \in Dead THEN {}
    ELSE IF plan # <<>> THEN {Head(plan)}
    ELSE {c \in FreeCalls(handle) :
            /\ c.op \notin {"write", "flush", "finish"} => budget > 0
            /\ c.op = "write" =>
                 (IF handle.deflate THEN handle.unpacked_size ELSE handle.size) + Len(c.buf) <= MaxBlob}

Taken(c) ==
    /\ plan' = IF plan # <<>> THEN Tail(plan) ELSE plan
    /\ budget' = IF plan = <<>> /\ c.op \notin {"write", "flush", "finish"}
                 THEN budget - 1 ELSE budget
    /\ prev' = [st |-> state, io |-> storage, last |-> last,
                was |-> [p \in paths(prev.st) |-> open_read_to_end(prev.st, prev.io, p)],
                had |-> prev.st.path_to_entry_index_map,
                h |-> handle]

Returned(c, ret) == [op |-> c.op, path |-> c.path, dst |-> c.dst, ret |-> ret]

-----------------------------------------------------------------------------
(* The state machine: Pkg::create on an empty Cursor, then one call at a time *)

\* the history variable: the sizes of the index that an insert of `path`
\* finds, whether it finds every slot occupied, and whether it finds the
\* path region too short for the path
Found(st, path) ==
    [path |-> path,
     entry_count |-> Len(st.entries),
     path_region_size |-> st.path_region_size,
     full |-> \A k \in 1..Len(st.entries) : st.entries[k].some,
     short |-> st.path_region_empty_offset + Len(path) + 1 >= st.path_region_size]

Init ==
    LET m == create(EmptyStorage)
    IN  /\ state = m.st
        /\ storage = m.io
        /\ handle = NoHandle
        /\ last = [op |-> "create", path |-> <<>>, dst |-> <<>>, ret |-> "Ok"]
        /\ expected = <<>>
        /\ plan \in Scripts
        /\ budget = MaxOps
        /\ before = Found(m.st, <<>>)
        /\ prev = [st |-> m.st, io |-> EmptyStorage, last |-> last, was |-> <<>>, had |-> <<>>,
                  h |-> NoHandle]
        /\ copies = 0

\* what a call leaves behind: the index and the storage as the routine left
\* them, and what the caller saw
Left(c, m, rets) ==
    /\ state' = m.st
    /\ storage' = m.io
    /\ \E ret \in rets : last' = Returned(c, ret)
    /\ copies' = m.copies

\* Pkg::insert with its routine run: m
Inserted(c, m) ==
    /\ Left(c, m, IF contains(state, c.path) THEN {"AlreadyExists"}
                  ELSE Outcomes([m EXCEPT !.ret = "Ok"]))
    /\ handle' = IF ~contains(state, c.path) /\ m.fault = "none" THEN m.ret ELSE NoHandle
    /\ expected' = IF ~contains(state, c.path) /\ m.fault = "none"
                   THEN With(expected, c.path, <<>>) ELSE expected

\* Pkg::insert
Insert ==
    \E c \in Pending :
        /\ c.op = "insert"
        /\ ~handle.live
        /\ Inserted(c, insert(Ctx(state, storage), c.path, c.deflate))
        /\ before' = Found(state, c.path)
        /\ Taken(c)

\* <EntryWriter as Write>::write with its routine run: r
Written(c, r) ==
    /\ handle' = r.h
    /\ storage' = r.io
    /\ expected' = IF r.fault = "none"
                   THEN With(expected, handle.path, expected[handle.path] \o c.buf)
                   ELSE expected
    /\ last' = Returned(c, IF r.fault = "none" THEN "Ok" ELSE "panic")
    /\ copies' = 0

\* <EntryWriter as Write>::write
Write ==
    \E c \in Pending :
        /\ c.op = "write"
        /\ handle.live
        /\ Written(c, WriteHandle_write(handle, storage, c.buf))
        /\ UNCHANGED state
        /\ UNCHANGED before
        /\ Taken(c)

\* <EntryWriter as Write>::flush with its routine run: m
Flushed(c, m) ==
    /\ Left(c, m, {"Ok"})
    /\ handle' = m.ret

\* <EntryWriter as Write>::flush
Flush ==
    \E c \in Pending :
        /\ c.op = "flush"
        /\ handle.live
        /\ Flushed(c, WriteHandle_flush(Ctx(state, storage), handle))
        /\ UNCHANGED expected
        /\ UNCHANGED before
        /\ Taken(c)

\* EntryWriter::finish, and the drop of an EntryWriter
Finish ==
    \E c \in Pending :
        /\ c.op = "finish"
        /\ handle.live
        /\ Left(c, WriteHandle_finish(Ctx(state, storage), handle), {"Ok"})
        /\ handle' = NoHandle
        /\ UNCHANGED expected
        /\ UNCHANGED before
        /\ Taken(c)

\* Pkg::remove with its routine run: m
Removed(c, m) ==
    /\ Left(c, m, {m.ret})
    /\ expected' = IF m.ret = "Ok" THEN Without(expected, c.path) ELSE expected

\* Pkg::remove
Remove ==
    \E c \in Pending :
        /\ c.op = "remove"
        /\ ~handle.live
        /\ Removed(c, remove(Ctx(state, storage), c.path))
        /\ UNCHANGED handle
        /\ UNCHANGED before
        /\ Taken(c)

\* Pkg::rename or Pkg::replace with its routine run: m
Moved(c, m) ==
    /\ Left(c, m, Outcomes(m))
    /\ expected' = IF m.fault = "none" /\ m.ret = "Ok"
                   THEN With(Without(expected, c.path), c.dst, expected[c.path])
                   ELSE expected

\* Pkg::rename
Rename ==
    \E c \in Pending :
        /\ c.op = "rename"
        /\ ~handle.live
        /\ Moved(c, rename(Ctx(state, storage), c.path, c.dst))
        /\ UNCHANGED handle
        /\ UNCHANGED before
        /\ Taken(c)

\* Pkg::replace
Replace ==
    \E c \in Pending :
        /\ c.op = "replace"
        /\ ~handle.live
        /\ Moved(c, replace(Ctx(state, storage), c.path, c.dst))
        /\ UNCHANGED handle
        /\ UNCHANGED before
        /\ Taken(c)

\* Pkg::repack
Repack ==
    \E c \in Pending :
        /\ c.op = "repack"
        /\ ~handle.live
        /\ Left(c, repack(Ctx(state, storage)), Outcomes(repack(Ctx(state, storage))))
        /\ UNCHANGED <<handle, expected>>
        /\ UNCHANGED before
        /\ Taken(c)

Next ==
    \/ Insert
    \/ Write
    \/ Flush
    \/ Finish
    \/ Remove
    \/ Rename
    \/ Replace
    \/ Repack

Spec == Init /\ [][Next]_vars

-----------------------------------------------------------------------------
(* Archives written by another program: Pkg::parse, then one repack *)

\* the entry of a path as a well-formed record carries it
CraftedEntry(path, relative_path_offset, data_offset, data_size) ==
    [path_hash |-> pkg_path_hash(path),
     relative_path_offset |-> relative_path_offset,
     path |-> path,
     data_offset |-> data_offset,
     data_size |-> data_size,
     unpacked_size |-> data_size,
     flags |-> 0]

\* bounds of the crafted archives: the slots of the entry table, and how far
\* into the data region a blob may start and how long it may be
CraftedSlots == 3
CraftedSpan == 2

\* where the data region of a crafted archive starts, and where it ends
CraftedData == HEADER_SIZE + CraftedSlots * ENTRY_SIZE + 4
CraftedEnd == CraftedData + 2 * CraftedSpan

\* an archive of CraftedSlots slots with the entries "a" and "b" in the slots
\* slot_a and slot_b, the paths "a\0b\0", and data bytes 209, 210, ...; the
\* offsets and sizes of the two blobs are free, so the blobs may overlap
Crafted(slot_a, slot_b, off_a, size_a, off_b, size_b) ==
    LET header == write_all(
                      write_all(
                          write_all(
                              write_all(write_all(EmptyStorage, MAGIC),
                                        to_be_bytes_u16(HEADER_SIZE)),
                              to_be_bytes_u16(ENTRY_SIZE)),
                          to_be_bytes_u32(CraftedSlots)),
                      to_be_bytes_u32(4))
        table == fill(header, 0, CraftedSlots * ENTRY_SIZE)
        body == write_all(write_all(table, PathA \o <<0>> \o PathB \o <<0>>),
                          [k \in 1..(CraftedEnd - CraftedData) |-> 208 + k])
        with_a == Entry_write(seek_start(body, entry_list_offset + slot_a * ENTRY_SIZE),
                              CraftedEntry(PathA, 0, off_a, size_a))
    IN  Entry_write(seek_start(with_a, entry_list_offset + slot_b * ENTRY_SIZE),
                    CraftedEntry(PathB, 2, off_b, size_b))

\* Pkg::parse of a crafted archive, and a caller about to repack it
InitParsed ==
    \E slot_a, slot_b \in 0..(CraftedSlots - 1) :
    \E off_a, off_b \in CraftedData..(CraftedData + CraftedSpan) :
    \E size_a, size_b \in 0..CraftedSpan :
        /\ slot_a # slot_b
        \* parse leaves the storage after the path blob it read
        /\ storage = seek_start(Crafted(slot_a, slot_b, off_a, size_a, off_b, size_b),
                                CraftedData)
        /\ parse(storage).ret = "Ok"
        /\ state = parse(storage).st.v
        /\ handle = NoHandle
        /\ last = [op |-> "parse", path |-> <<>>, dst |-> <<>>, ret |-> "Ok"]
        /\ expected = [p \in paths(state) |-> open_read_to_end(state, storage, p).bytes]
        /\ plan = <<Repack_call>>
        /\ budget = 0
        /\ before = Found(state, <<>>)
        /\ prev = [st |-> state, io |-> storage, last |-> last, was |-> <<>>, had |-> <<>>,
                  h |-> NoHandle]
        /\ copies = 0

NextParsed == Repack

SpecParsed == InitParsed /\ [][NextParsed]_vars

\* PkgState::repack, the test for overlapping entries: two neighbours in
\* the order of (data_offset, data_size) with a.data_offset + a.data_size >
\* b.data_offset
Overlapping(st) ==
    LET sorted == sort_by_data_offset(st.entries)
    IN  \E k \in 1..(Len(sorted) - 1) :
            sorted[k].v.data_offset + sorted[k].v.data_size > sorted[k + 1].v.data_offset

-----------------------------------------------------------------------------
(* Pkg::create on a storage that holds bytes already, then one entry added *)

\* the storages create is given: a Cursor over a vector of length `len` whose
\* bytes at the offsets `marks` are 238 and the others zero, at position pos
OldLens == {0, 1, 3215, 3216, 3217, 3300}
OldMarks == {0, 17, 3215, 3216, 3299}
OldStorage(len) ==
    {[data |-> [i \in marks |-> 238], len |-> len, pos |-> pos] :
        marks \in SUBSET {i \in OldMarks : i < len}, pos \in {0, len}}
OldStorages == UNION {OldStorage(len) : len \in OldLens}

InitOver ==
    \E old \in OldStorages :
        LET m == create(old)
        IN  /\ state = m.st
            /\ storage = m.io
            /\ handle = NoHandle
            /\ last = [op |-> "create", path |-> <<>>, dst |-> <<>>, ret |-> "Ok"]
            /\ expected = <<>>
            /\ plan = Add(PathA, FALSE, <<170>>)
            /\ budget = 0
            /\ before = Found(m.st, <<>>)
            /\ prev = [st |-> m.st, io |-> old, last |-> last, was |-> <<>>, had |-> <<>>,
                  h |-> NoHandle]
            /\ copies = 0

NextOver == Insert \/ Write \/ Finish

SpecOver == InitOver /\ [][NextOver]_vars

-----------------------------------------------------------------------------
(* Paths that differ in case only: one entry added under each *)

\* the characters of the paths: the letters A, Z, a, z and their neighbours
\* in ASCII
CaseLetters == {64, 65, 90, 91, 96, 97, 122, 123}
MaxCasePath == 2
CasePaths == UNION {[1..n -> CaseLetters] : n \in 1..MaxCasePath}

\* the path with the case of every letter changed
SwapCase(path) ==
    [k \in 1..Len(path) |->
        IF path[k] \in 65..90 THEN path[k] + 32
        ELSE IF path[k] \in 97..122 THEN path[k] - 32
        ELSE path[k]]

InitCase ==
    \E path \in CasePaths :
        LET m == create(EmptyStorage)
        IN  /\ state = m.st
            /\ storage = m.io
            /\ handle = NoHandle
            /\ last = [op |-> "create", path |-> <<>>, dst |-> <<>>, ret |-> "Ok"]
            /\ expected = <<>>
            /\ plan = Add(path, FALSE, <<170>>)
                         \o (IF SwapCase(path) = path THEN <<>>
                             ELSE Add(SwapCase(path), TRUE, <<187>>))
            /\ budget = 0
            /\ before = Found(m.st, <<>>)
            /\ prev = [st |-> m.st, io |-> EmptyStorage, last |-> last, was |-> <<>>, had |-> <<>>,
                  h |-> NoHandle]
            /\ copies = 0

SpecCase == InitCase /\ [][NextOver]_vars

-----------------------------------------------------------------------------
(* One handle on an archive of three entries, read and sought a few times *)

\* an entry added to the archive of the context m: Pkg::insert, one write
\* of data, finish
Added(m, path, deflate, data) ==
    CHOOSE added \in
        {WriteHandle_finish([w.inserted EXCEPT !.io = w.written.io], w.written.h) :
            w \in {[inserted |-> i, written |-> WriteHandle_write(i.ret, i.io, data)] :
                      i \in {insert(m, path, deflate)}}} : TRUE

\* "a" raw with 3 bytes, "b" raw with 2 bytes right after it, "C" deflated
\* from 2 bytes
ReadArchive ==
    Added(Added(Added(create(EmptyStorage), PathA, FALSE, <<11, 12, 13>>),
                PathB, FALSE, <<21, 22>>),
          PathC, TRUE, <<31, 32>>)

\* the handles: Pkg::open of each path, and the writer of a deflated entry
\* that has taken one byte
Readers ==
    UNION {{[h |-> o.h, st |-> m.st, io |-> o.io] :
                o \in {open(m.st, m.io, path) : path \in Paths}} :
           m \in {ReadArchive}}

Writers ==
    UNION {{[h |-> [live |-> TRUE,
                    writer |-> TRUE,
                    deflate |-> w.written.h.deflate,
                    offset |-> w.written.h.offset,
                    cursor |-> 0,
                    size |-> w.written.h.size,
                    done |-> FALSE,
                    decompress |-> [total_in |-> 0, len |-> 0],
                    path |-> w.written.h.path],
             st |-> w.inserted.st,
             io |-> w.written.io] :
                w \in {[inserted |-> i, written |-> WriteHandle_write(i.ret, i.io, <<41>>)] :
                          i \in {insert(m, LongPath(2), TRUE)}}} :
           m \in {ReadArchive}}

\* bounds: the calls on the handle, the buffer lengths and the seeks
MaxReads == 3
BufLens == {0, 1, 2, 4}
Seeks ==
    {[whence |-> "Start", n |-> n] : n \in {0, 1, 4}}
        \cup {[whence |-> "End", n |-> n] : n \in {-4, -1, 0}}
        \cup {[whence |-> "Current", n |-> n] : n \in {-1, 1}}

\* `expected` is the position in the blob a caller takes the handle to be at
\* (what the last seek returned, plus the bytes read since) and `before` the
\* handle as the latest call found it
InitRead ==
    \E o \in Readers \cup Writers :
        /\ state = o.st
        /\ storage = o.io
        /\ handle = o.h
        /\ last = [op |-> IF o.h.writer THEN "insert" ELSE "open", path |-> o.h.path,
                   dst |-> <<>>, ret |-> "Ok", got |-> <<>>, value |-> 0]
        /\ expected = [pos |-> 0]
        /\ plan = <<>>
        /\ budget = MaxReads
        /\ before = o.h
        /\ prev = [st |-> o.st, io |-> o.io, last |-> last, was |-> <<>>, had |-> <<>>,
                  h |-> o.h]
        /\ copies = 0

\* what a call on the handle leaves behind
Handled(op, r) ==
    /\ budget > 0
    /\ last.ret # "panic"
    /\ handle' = r.h
    /\ storage' = r.io
    /\ before' = handle
    /\ prev' = [st |-> state, io |-> storage, last |-> last, was |-> <<>>, had |-> <<>>,
                h |-> handle]
    /\ budget' = budget - 1
    /\ copies' = 0
    /\ UNCHANGED <<state, plan>>

\* Read::read on the EntryReader or EntryWriter
ReadEntry ==
    \E len \in BufLens :
        LET r == Entry_read(handle, storage, len)
        IN  /\ Handled("read", r)
            /\ last' = [op |-> "read", path |-> handle.path, dst |-> <<>>, ret |-> r.ret,
                        got |-> r.got, value |-> len]
            /\ expected' = [pos |-> expected.pos + Len(r.got)]

\* Seek::seek on the EntryReader or EntryWriter
SeekEntry ==
    \E sk \in Seeks :
        LET r == Entry_seek(handle, storage, sk.whence, sk.n)
        IN  /\ Handled("seek", r)
            /\ last' = [op |-> "seek", path |-> handle.path, dst |-> <<>>, ret |-> r.ret,
                        got |-> <<>>, value |-> r.value]
            /\ expected' = IF r.ret = "Ok" THEN [pos |-> r.value] ELSE expected

NextRead == ReadEntry \/ SeekEntry

SpecRead == InitRead /\ [][NextRead]_vars

-----------------------------------------------------------------------------
(* ReadSeekWriteExt::copy_within on a Cursor, called a few times *)

\* bounds: the calls, the length of the short vector and the offsets and
\* counts tried on it
MaxCopies == 2
CopyLen == 6
CopySpan == 3

\* a short vector of distinct bytes, and one longer than the copy buffer
\* with a few bytes set
CopyStorages ==
    {[data |-> [i \in 0..(CopyLen - 1) |-> i + 1], len |-> CopyLen, pos |-> 0],
     [data |-> (10 :> 1 @@ 17 :> 2 @@ (BUFFER_SIZE + 3) :> 3 @@ (BUFFER_SIZE + 10) :> 4),
      len |-> BUFFER_SIZE + 12, pos |-> 0]}

\* (from, count, to): every small triple, and a count above the buffer size
\* copied down, up by one and up by less than its length
CopyCalls ==
    {[from |-> f, count |-> c, to |-> t] : f \in 0..CopySpan, c \in 0..CopySpan, t \in 0..CopySpan}
        \cup {[from |-> 10, count |-> BUFFER_SIZE + 1, to |-> t] : t \in {0, 11, BUFFER_SIZE + 3}}

InitCopy ==
    /\ storage \in CopyStorages
    /\ state = [entries |-> <<>>, path_region_size |-> 0,
                path_to_entry_index_map |-> <<>>, path_region_empty_offset |-> 0]
    /\ handle = NoHandle
    /\ last = [op |-> "none", path |-> <<>>, dst |-> <<>>, ret |-> "Ok",
               from |-> 0, count |-> 0, to |-> 0]
    /\ expected = <<>>
    /\ plan = <<>>
    /\ budget = MaxCopies
    /\ before = NoHandle
    /\ prev = [st |-> state, io |-> storage, last |-> last, was |-> <<>>, had |-> <<>>,
                  h |-> NoHandle]
    /\ copies = 0

\* SyncDriver::handle_write, WriteRequest::Copy
Copy ==
    \E c \in CopyCalls :
        LET r == copy_within(storage, c.from, c.count, c.to)
        IN  /\ budget > 0
            /\ last.ret = "Ok"
            /\ storage' = r.s
            /\ last' = [op |-> "copy", path |-> <<>>, dst |-> <<>>,
                        ret |-> IF r.ok THEN "Ok" ELSE "Io",
                        from |-> c.from, count |-> c.count, to |-> c.to]
            /\ prev' = [st |-> state, io |-> storage, last |-> last, was |-> <<>>, had |-> <<>>,
                h |-> handle]
            /\ budget' = budget - 1
            /\ copies' = copies + 1
            /\ UNCHANGED <<state, handle, expected, plan, before>>

NextCopy == Copy

SpecCopy == InitCopy /\ [][NextCopy]_vars

-----------------------------------------------------------------------------
(* Pkg::parse of archives written by another program: two slots, the second
   a record with data_offset 0, and a path blob of a few shapes *)

\* bounds: the fields of the record with data_offset 0 (flag byte, path
\* offset, low byte of the hash, sizes) and the path blobs
ForeignFlagBytes == {0, 1, 2, 128}
ForeignPathOffsets == {0, 2, 9}
ForeignHashBytes == {0, 97}
ForeignSizes == {0, 3}
ForeignBlobs ==
    {<<>>, <<97>>, <<97, 0>>, <<97, 0, 0>>, <<97, 0, 0, 0>>, <<0, 0>>, <<97, 0, 200>>}

\* header, two records, the path blob and one byte of data; slot 0 holds an
\* entry whose path starts the blob, or nothing
Foreign(present, blob, flag_byte, path_offset, hash_byte, size) ==
    LET header == write_all(
                      write_all(
                          write_all(
                              write_all(write_all(EmptyStorage, MAGIC),
                                        to_be_bytes_u16(HEADER_SIZE)),
                              to_be_bytes_u16(ENTRY_SIZE)),
                          to_be_bytes_u32(2)),
                      to_be_bytes_u32(Len(blob)))
        data_start == HEADER_SIZE + 2 * ENTRY_SIZE + Len(blob)
        first == IF present
                 THEN <<0, 0, 0, 97>> \o <<0, 0, 0, 0>> \o to_be_bytes_u32(data_start)
                          \o to_be_bytes_u32(1) \o to_be_bytes_u32(1)
                 ELSE [k \in 1..ENTRY_SIZE |-> 0]
        second == <<0, 0, 0, hash_byte>> \o <<flag_byte, 0, 0, path_offset>> \o <<0, 0, 0, 0>>
                      \o to_be_bytes_u32(size) \o to_be_bytes_u32(size)
    IN  seek_start(write_all(header, first \o second \o blob \o <<209>>), 0)

\* the storage with every record whose data_offset is 0 made all zero
Blanked(s) ==
    LET entry_count == as_u32_be(Slice(s, 8, 4))
        blank == {i \in 0..(entry_count - 1) :
                     as_u32_be(Slice(s, HEADER_SIZE + i * ENTRY_SIZE + 8, 4)) = 0}
    IN  [s EXCEPT !.data = [k \in {j \in DOMAIN s.data :
                                      \A i \in blank : j < HEADER_SIZE + i * ENTRY_SIZE
                                                        \/ j >= HEADER_SIZE + (i + 1) * ENTRY_SIZE}
                               |-> s.data[k]]]

\* the number of zero bytes a sequence ends with
RECURSIVE TrailingZeros(_)
TrailingZeros(bytes) ==
    IF bytes = <<>> \/ bytes[Len(bytes)] # 0 THEN 0
    ELSE 1 + TrailingZeros(SubSeq(bytes, 1, Len(bytes) - 1))

InitParse ==
    \E present \in BOOLEAN, blob \in ForeignBlobs, flag_byte \in ForeignFlagBytes,
       path_offset \in ForeignPathOffsets, hash_byte \in ForeignHashBytes, size \in ForeignSizes :
        /\ storage = Foreign(present, blob, flag_byte, path_offset, hash_byte, size)
        /\ state = [entries |-> <<>>, path_region_size |-> 0,
                    path_to_entry_index_map |-> <<>>, path_region_empty_offset |-> 0]
        /\ handle = NoHandle
        /\ last = [op |-> "none", path |-> <<>>, dst |-> <<>>, ret |-> "Ok"]
        /\ expected = <<>>
        /\ plan = <<>>
        /\ budget = 1
        /\ before = NoHandle
        /\ prev = [st |-> state, io |-> storage, last |-> last, was |-> <<>>, had |-> <<>>,
                  h |-> NoHandle]
        /\ copies = 0

\* Pkg::parse: on Ok the Pkg holds the index and the storage, its cursor
\* after the path blob; on an error no Pkg is made and the bytes stay
Parse ==
    LET parsed == parse(storage)
    IN  /\ budget > 0
        /\ last' = [op |-> "parse", path |-> <<>>, dst |-> <<>>, ret |-> parsed.ret]
        /\ state' = IF parsed.ret = "Ok" THEN parsed.st.v ELSE state
        /\ storage' = IF parsed.ret = "Ok"
                      THEN seek_start(storage, HEADER_SIZE + Len(parsed.st.v.entries) * ENTRY_SIZE
                                                   + parsed.st.v.path_region_size)
                      ELSE storage
        /\ prev' = [st |-> state, io |-> storage, last |-> last, was |-> <<>>, had |-> <<>>,
                h |-> handle]
        /\ budget' = budget - 1
        /\ UNCHANGED <<handle, expected, plan, before, copies>>

NextParse == Parse

SpecParse == InitParse /\ [][NextParse]_vars

-----------------------------------------------------------------------------
(* Properties *)

\* parse of the storage `s` gives the index `st`: the same number of slots,
\* the same path region size, and in every slot the same entry or none
ParsesAs(s, st) ==
    LET parsed == parse(s)
    IN  /\ parsed.ret = "Ok"
        /\ Len(parsed.st.v.entries) = Len(st.entries)
        /\ parsed.st.v.path_region_size = st.path_region_size
        /\ parsed.st.v.path_to_entry_index_map = st.path_to_entry_index_map
        /\ \A k \in 1..Len(st.entries) : parsed.st.v.entries[k] = st.entries[k]

\* a path in ASCII lower case
Lowercased(path) ==
    [k \in 1..Len(path) |-> IF path[k] \in 65..90 THEN path[k] + 32 ELSE path[k]]

\* the 32 bits of a hash, bit 0 the lowest
HashBits(h) ==
    [i \in 0..31 |-> IF i < 16 THEN (h[2] \div 2^i) % 2 ELSE (h[1] \div 2^(i - 16)) % 2]

\* the hash of the first k characters of `path` as bits: the hash so far
\* rotated right by 5, xor the character
RECURSIVE RotateXor(_, _)
RotateXor(path, k) ==
    IF k = 0 THEN [i \in 0..31 |-> 0]
    ELSE LET h == RotateXor(path, k - 1)
         IN  [i \in 0..31 |->
                 IF i < 8 THEN (h[(i + 5) % 32] + ((path[k] \div 2^i) % 2)) % 2
                 ELSE h[(i + 5) % 32]]

\* no writer is open and the latest call neither failed in the storage nor
\* ended the process
Settled == ~handle.live /\ last.ret \notin Dead

\* the record of slot i as the storage holds it
OnDisk(i) == parse_record(storage, i).slot

\* the path of slot i as the storage holds it, read as parse reads it
PathOnDisk(i) ==
    parse_path(storage, path_region_offset(state), state.path_region_size,
               OnDisk(i).v.relative_path_offset)

\* the sum of f over the finite set S of slots
RECURSIVE SumOver(_, _)
SumOver(S, f) ==
    IF S = {} THEN 0
    ELSE LET i == CHOOSE j \in S : TRUE IN f[i] + SumOver(S \ {i}, f)

\* C1: once every call has returned, every path of paths() is contained and
\* open(p) read to the end gives the bytes the caller wrote for the entry now
\* named p.
C1_OpenReturnsWritten ==
    Settled =>
        \A p \in paths(state) :
            /\ contains(state, p)
            /\ p \in DOMAIN expected
            /\ open_read_to_end(state, storage, p) = [ret |-> "Ok", bytes |-> expected[p]]

\* C2: parse of the storage succeeds and gives the paths of the live index,
\* every entry in the same slot with the same data_offset, data_size,
\* unpacked_size and flags.
C2_ParseAgrees ==
    Settled =>
        /\ parse(storage).ret = "Ok"
        /\ paths(parse(storage).st.v) = paths(state)
        /\ \A p \in paths(state) :
              LET i == state.path_to_entry_index_map[p]
                  live == state.entries[i + 1].v
                  parsed == parse(storage).st.v.entries[i + 1]
              IN  /\ parse(storage).st.v.path_to_entry_index_map[p] = i
                  /\ parsed.some
                  /\ parsed.v.data_offset = live.data_offset
                  /\ parsed.v.data_size = live.data_size
                  /\ parsed.v.unpacked_size = live.unpacked_size
                  /\ parsed.v.flags = live.flags

\* C3: every occupied entry's blob lies at or after data_region_offset and
\* ends at or before the end of the stream.
C3_BlobsInDataRegion ==
    Settled =>
        \A i \in OccupiedSlots(state) :
            /\ data_region_offset(state) <= state.entries[i + 1].v.data_offset
            /\ state.entries[i + 1].v.data_offset + state.entries[i + 1].v.data_size <= storage.len

\* C4: an insert that found every slot occupied has grown the entry table by
\* 64 slots and, once finished, the storage parses and lists every path
\* inserted before plus the new one.
C4_EntryGrowthParseable ==
    (Settled /\ last.op = "finish" /\ before.full) =>
        /\ Len(state.entries) = before.entry_count + PREALLOCATED_ENTRY_COUNT
        /\ HEADER_SIZE + ENTRY_SIZE * Len(state.entries) + state.path_region_size <= storage.len
        /\ parse(storage).ret = "Ok"
        /\ paths(parse(storage).st.v) = DOMAIN expected

\* C5: an insert that found path_region_empty_offset + len(path) + 1 >=
\* path_region_size (and a free slot) has grown the path region by
\* len(path) + 1 + 30 * 32 bytes and, once finished, the storage parses and
\* lists every path inserted before plus the new one.
C5_PathGrowthParseable ==
    (Settled /\ last.op = "finish" /\ before.short /\ ~before.full) =>
        /\ state.path_region_size
             = before.path_region_size + Len(before.path) + 1 + PREALLOCATED_PATH_LEN * 32
        /\ parse(storage).ret = "Ok"
        /\ paths(parse(storage).st.v) = DOMAIN expected

\* C6: for every occupied entry the path_hash in memory and the one in its
\* record on the storage are pkg_path_hash of the entry's current path.
C6_HashOfCurrentPath ==
    Settled =>
        \A i \in OccupiedSlots(state) :
            /\ state.entries[i + 1].v.path_hash = pkg_path_hash(state.entries[i + 1].v.path)
            /\ OnDisk(i).some
            /\ OnDisk(i).v.path_hash = pkg_path_hash(state.entries[i + 1].v.path)

\* C7: the path map is a bijection between its keys and the occupied slots,
\* and the entry a key maps to carries the key as its path.
C7_MapBijection ==
    Settled =>
        /\ \A p \in paths(state) :
              /\ state.path_to_entry_index_map[p] \in OccupiedSlots(state)
              /\ state.entries[state.path_to_entry_index_map[p] + 1].v.path = p
        /\ \A i \in OccupiedSlots(state) :
              Cardinality({p \in paths(state) : state.path_to_entry_index_map[p] = i}) = 1

\* C7, reached: a replace has taken over the entry in slot 1 with the blob of
\* the entry in slot 0, which it emptied.
C7_Reached ==
    /\ Settled
    /\ last.op = "replace"
    /\ last.ret = "Ok"
    /\ ~state.entries[1].some
    /\ state.entries[2].some
    /\ state.path_to_entry_index_map = (last.dst :> 1)

\* C8: every occupied entry's path offset lies inside the path region, and
\* the storage holds there the entry's path followed by a NUL, all of it
\* inside the path region.
C8_PathsInPathRegion ==
    Settled =>
        \A i \in OccupiedSlots(state) :
            LET entry == state.entries[i + 1].v
            IN  /\ 0 <= entry.relative_path_offset
                /\ entry.relative_path_offset < state.path_region_size
                /\ entry.relative_path_offset + Len(entry.path) + 1 <= state.path_region_size
                /\ Slice(storage, path_region_offset(state) + entry.relative_path_offset,
                         Len(entry.path) + 1) = entry.path \o <<0>>

\* C9: after a successful repack the entry table has no empty slot, in memory
\* and in the header; path_region_size is the sum of len(path) + 1; the blobs
\* follow one another from data_region_offset in the order packed; and the
\* stream ends with the last blob, at 16 + 20 n + sum(len(path) + 1) +
\* sum(data_size).
C9_RepackPacks ==
    (last.op = "repack" /\ last.ret = "Ok") =>
        LET n == Len(state.entries)
            slots == 0..(n - 1)
            path_bytes == SumOver(slots, [i \in slots |-> Len(state.entries[i + 1].v.path) + 1])
            data_bytes == SumOver(slots, [i \in slots |-> state.entries[i + 1].v.data_size])
            starts == {state.entries[i + 1].v.data_offset : i \in slots}
            ends == {state.entries[i + 1].v.data_offset + state.entries[i + 1].v.data_size : i \in slots}
        IN  /\ OccupiedSlots(state) = slots
            /\ as_u32_be(Slice(storage, 8, 4)) = n
            /\ \A i \in slots : OnDisk(i).some
            /\ state.path_region_size = path_bytes
            /\ as_u32_be(Slice(storage, 12, 4)) = path_bytes
            /\ \A i \in slots :
                  /\ OnDisk(i).v.data_offset = state.entries[i + 1].v.data_offset
                  /\ OnDisk(i).v.data_size = state.entries[i + 1].v.data_size
                  /\ state.entries[i + 1].v.data_offset >= data_region_offset(state)
                  /\ \/ state.entries[i + 1].v.data_size = 0
                     \/ state.entries[i + 1].v.data_offset = data_region_offset(state)
                     \/ state.entries[i + 1].v.data_offset \in ends
            /\ (n > 0 /\ data_bytes > 0) => data_region_offset(state) \in starts
            /\ storage.len = HEADER_SIZE + ENTRY_SIZE * n + path_bytes + data_bytes

\* C9, reached: a repack has packed two entries with blobs, one of them
\* renamed, out of a table of 64 slots.
C9_Reached ==
    /\ last.op = "repack"
    /\ last.ret = "Ok"
    /\ Len(state.entries) = 2
    /\ \A k \in 1..2 : state.entries[k].v.data_size > 0
    /\ PathC \in paths(state)

\* C10: after a successful repack the records on the storage are in ascending
\* order of pkg_path_hash of their paths, and the path map points each path
\* at its record's index.
C10_RepackSortsByHash ==
    (last.op = "repack" /\ last.ret = "Ok") =>
        /\ \A i \in OccupiedSlots(state) :
              /\ OnDisk(i).some
              /\ state.path_to_entry_index_map[PathOnDisk(i)] = i
        /\ \A i, j \in OccupiedSlots(state) :
              i < j => ~hash_lt(pkg_path_hash(PathOnDisk(j)), pkg_path_hash(PathOnDisk(i)))

\* C11: after a successful repack every path present before it is present,
\* and open(p) read to the end gives what it gave before the repack, on the
\* live index and on the index parse builds from the storage.
C11_RepackPreservesContents ==
    (last.op = "repack" /\ last.ret = "Ok") =>
        LET parsed == parse(storage)
        IN  /\ parsed.ret = "Ok"
            /\ \A p \in paths(prev.st) :
                  LET opened == open_read_to_end(prev.st, prev.io, p)
                  IN  /\ contains(state, p)
                      /\ open_read_to_end(state, storage, p) = opened
                      /\ contains(parsed.st.v, p)
                      /\ open_read_to_end(parsed.st.v, storage, p) = opened

C13_OverlapMutatesNothing ==
    (last.op = "repack" /\ Overlapping(prev.st)) =>
        /\ last.ret = "OverlappingEntries"
        /\ storage = prev.io
        /\ state = prev.st
        /\ \A p \in paths(prev.st) :
              open_read_to_end(state, storage, p) = open_read_to_end(prev.st, prev.io, p)

\* C14: on an archive that create and the mutating calls produced, the data
\* ranges of the occupied entries are pairwise disjoint, the overlap test of
\* repack finds nothing, and repack never returns OverlappingEntries.
C14_NoOverlapFromCreate ==
    Settled =>
        /\ ~Overlapping(state)
        /\ last.ret # "OverlappingEntries"
        /\ \A i, j \in OccupiedSlots(state) :
              i # j =>
                  LET a == state.entries[i + 1].v
                      b == state.entries[j + 1].v
                  IN  \/ a.data_offset + a.data_size <= b.data_offset
                      \/ b.data_offset + b.data_size <= a.data_offset

\* C14, reached: a successful repack of an archive that had 64 slots and
\* two entries with blobs.
C14_Reached ==
    /\ Settled
    /\ last.op = "repack"
    /\ last.ret = "Ok"
    /\ Len(prev.st.entries) = PREALLOCATED_ENTRY_COUNT
    /\ Cardinality({i \in OccupiedSlots(state) : state.entries[i + 1].v.data_size > 0}) = 2

\* C15: after a successful rename(src, dst) src is absent and dst present,
\* open(dst) gives what open(src) gave, the entry keeps its slot,
\* data_offset, data_size, unpacked_size and flags, and every other entry
\* is as it was.
C15_RenameKeepsEntry ==
    (last.op = "rename" /\ last.ret = "Ok") =>
        /\ ~contains(state, last.path)
        /\ contains(state, last.dst)
        /\ open_read_to_end(state, storage, last.dst)
               = open_read_to_end(prev.st, prev.io, last.path)
        /\ state.path_to_entry_index_map[last.dst] = prev.st.path_to_entry_index_map[last.path]
        /\ LET now == state.entries[state.path_to_entry_index_map[last.dst] + 1].v
               was == prev.st.entries[prev.st.path_to_entry_index_map[last.path] + 1].v
           IN  /\ now.data_offset = was.data_offset
               /\ now.data_size = was.data_size
               /\ now.unpacked_size = was.unpacked_size
               /\ now.flags = was.flags
        /\ \A p \in paths(prev.st) \ {last.path} :
              /\ contains(state, p)
              /\ state.path_to_entry_index_map[p] = prev.st.path_to_entry_index_map[p]
              /\ state.entries[state.path_to_entry_index_map[p] + 1]
                     = prev.st.entries[prev.st.path_to_entry_index_map[p] + 1]
              /\ open_read_to_end(state, storage, p) = open_read_to_end(prev.st, prev.io, p)

\* C16: rename(src, dst) returns NotFound when src is absent and
\* AlreadyExists when src and dst are present (dst = src included); in both
\* cases the storage, its position included, and the index are as before
\* the call, no copy was asked for, and open gives what it gave.
C16_RenameErrors ==
    last.op = "rename" =>
        /\ ~contains(prev.st, last.path) => last.ret = "NotFound"
        /\ (contains(prev.st, last.path) /\ contains(prev.st, last.dst)) =>
              last.ret = "AlreadyExists"
        /\ last.ret \in {"NotFound", "AlreadyExists"} =>
              /\ storage = prev.io
              /\ state = prev.st
              /\ copies = 0
              /\ \A p \in paths(prev.st) :
                    open_read_to_end(state, storage, p) = open_read_to_end(prev.st, prev.io, p)

\* C16, reached: a rename of a present path to itself was refused.
C16_Reached ==
    /\ last.op = "rename"
    /\ last.ret = "AlreadyExists"
    /\ last.dst = last.path
    /\ Cardinality(paths(state)) = 2

\* C17: rename(a, b) followed by rename(b, a), both successful, gives back
\* the paths and, for every path, the bytes open gave before the two calls,
\* and parse of the storage succeeds and lists the same paths.
C17_RenameThereAndBack ==
    (/\ last.op = "rename" /\ last.ret = "Ok"
     /\ prev.last.op = "rename" /\ prev.last.ret = "Ok"
     /\ last.path = prev.last.dst /\ last.dst = prev.last.path) =>
        /\ paths(state) = DOMAIN prev.was
        /\ \A p \in DOMAIN prev.was : open_read_to_end(state, storage, p) = prev.was[p]
        /\ parse(storage).ret = "Ok"
        /\ paths(parse(storage).st.v) = paths(state)

\* C18: replace(src, dst) returns Ok whenever src is present, whatever dst
\* is (dst = src included), and NotFound exactly when src is absent; with
\* dst absent it leaves the index and the storage as rename(src, dst) does.
C18_ReplaceSucceeds ==
    last.op = "replace" =>
        /\ contains(prev.st, last.path) => last.ret = "Ok"
        /\ ~contains(prev.st, last.path) <=> last.ret = "NotFound"
        /\ (contains(prev.st, last.path) /\ ~contains(prev.st, last.dst)) =>
              LET renamed == rename(Ctx(prev.st, prev.io), last.path, last.dst)
              IN  /\ state = renamed.st
                  /\ storage = renamed.io

\* C19: after a successful replace(src, dst) with src and dst present and
\* distinct, src is absent and dst present, open(dst) gives what open(src)
\* gave, the entry of dst keeps its slot, path, relative_path_offset and
\* path_hash and has the data_offset, data_size, unpacked_size and flags
\* src had, the slot of src is None and its 20 bytes in the storage are
\* zero, and the record of dst in the storage is the entry in memory.
C19_ReplaceTakesOver ==
    (/\ last.op = "replace" /\ last.ret = "Ok"
     /\ contains(prev.st, last.path) /\ contains(prev.st, last.dst)
     /\ last.path # last.dst) =>
        LET one_idx == prev.st.path_to_entry_index_map[last.path]
            two_idx == prev.st.path_to_entry_index_map[last.dst]
            one == prev.st.entries[one_idx + 1].v
            two == prev.st.entries[two_idx + 1].v
        IN  /\ ~contains(state, last.path)
            /\ contains(state, last.dst)
            /\ open_read_to_end(state, storage, last.dst)
                   = open_read_to_end(prev.st, prev.io, last.path)
            /\ state.path_to_entry_index_map[last.dst] = two_idx
            /\ state.entries[two_idx + 1]
                   = Some([two EXCEPT !.data_offset = one.data_offset,
                                      !.data_size = one.data_size,
                                      !.unpacked_size = one.unpacked_size,
                                      !.flags = one.flags])
            /\ state.entries[one_idx + 1] = None
            /\ Slice(storage, entry_list_offset + one_idx * ENTRY_SIZE, ENTRY_SIZE)
                   = [k \in 1..ENTRY_SIZE |-> 0]
            /\ OnDisk(one_idx) = None
            /\ OnDisk(two_idx) = Some([state.entries[two_idx + 1].v EXCEPT !.path = <<>>])

\* C19, reached: a raw entry took over the slot of a deflated one.
C19_Reached ==
    /\ last.op = "replace"
    /\ last.ret = "Ok"
    /\ contains(prev.st, last.path)
    /\ contains(prev.st, last.dst)
    /\ prev.st.entries[prev.st.path_to_entry_index_map[last.dst] + 1].v.flags = DEFLATED
    /\ state.entries[state.path_to_entry_index_map[last.dst] + 1].v.flags = 0
    /\ open_read_to_end(state, storage, last.dst).bytes = <<170>>

\* C20: insert of a path that is present returns AlreadyExists; the
\* storage, its position included, and the index are as before the call,
\* no writer is open, no copy was asked for, and open of the path gives the
\* bytes it gave before.
C20_InsertExisting ==
    (last.op = "insert" /\ contains(prev.st, last.path)) =>
        /\ last.ret = "AlreadyExists"
        /\ storage = prev.io
        /\ state = prev.st
        /\ copies = 0
        /\ ~handle.live
        /\ open_read_to_end(state, storage, last.path)
               = open_read_to_end(prev.st, prev.io, last.path)

\* C20, reached: an insert was refused for a path whose entry holds a byte.
C20_Reached ==
    /\ last.op = "insert"
    /\ last.ret = "AlreadyExists"
    /\ contains(state, last.path)
    /\ open_read_to_end(state, storage, last.path).bytes = <<170>>
    /\ Cardinality(paths(state)) = 2

\* C21: a successful insert maps the path to the lowest empty slot of the
\* entry table as the call found it, or to the table's former length when
\* no slot was empty; after remove(p), insert(p) takes the slot the remove
\* freed unless a lower slot was empty.
C21_InsertLowestSlot ==
    (last.op = "insert" /\ last.ret = "Ok") =>
        LET empty == {i \in 0..(Len(prev.st.entries) - 1) : ~prev.st.entries[i + 1].some}
            slot == state.path_to_entry_index_map[last.path]
        IN  /\ handle.live /\ handle.entry_slot = slot
            /\ empty # {} => (slot \in empty /\ \A j \in empty : slot <= j)
            /\ empty = {} => slot = Len(prev.st.entries)
            /\ (/\ prev.last.op = "remove" /\ prev.last.ret = "Ok"
                /\ prev.last.path = last.path
                /\ \A j \in empty : j >= prev.had[last.path]) =>
                   slot = prev.had[last.path]

\* C21, reached: a path removed from the second slot, the first occupied,
\* was inserted again.
C21_Reached ==
    /\ last.op = "insert" /\ last.ret = "Ok"
    /\ prev.last.op = "remove" /\ prev.last.ret = "Ok"
    /\ prev.last.path = last.path
    /\ prev.had[last.path] = 1
    /\ state.path_to_entry_index_map[last.path] = 1
    /\ state.entries[1].some

\* C22: remove of an absent path returns NotFound and changes nothing;
\* remove of a present path returns Ok, after which the path is absent and
\* open of it gives NotFound, its slot is None, the 20 bytes of its record
\* in the storage are zero, every other byte of the storage, the stream
\* length and the rest of the index are as before, and parse of the
\* storage does not list the path; when it was the only path, parse
\* succeeds and lists none.
C22_RemoveErases ==
    last.op = "remove" =>
        /\ ~contains(prev.st, last.path) =>
              /\ last.ret = "NotFound"
              /\ state = prev.st
              /\ storage = prev.io
        /\ contains(prev.st, last.path) =>
              LET entry_idx == prev.st.path_to_entry_index_map[last.path]
                  at == entry_list_offset + entry_idx * ENTRY_SIZE
                  parsed == parse(storage)
              IN  /\ last.ret = "Ok"
                  /\ ~contains(state, last.path)
                  /\ open_read_to_end(state, storage, last.path).ret = "NotFound"
                  /\ state = [prev.st EXCEPT
                                 !.entries[entry_idx + 1] = None,
                                 !.path_to_entry_index_map = Without(@, last.path)]
                  /\ Slice(storage, at, ENTRY_SIZE) = [k \in 1..ENTRY_SIZE |-> 0]
                  /\ storage.len = prev.io.len
                  /\ \A i \in (DOMAIN storage.data \cup DOMAIN prev.io.data) :
                        (i < at \/ i >= at + ENTRY_SIZE) => Byte(storage, i) = Byte(prev.io, i)
                  /\ parsed.ret = "Ok" => last.path \notin paths(parsed.st.v)
                  /\ paths(state) = {} =>
                        (parsed.ret = "Ok" /\ paths(parsed.st.v) = {})

\* C23: create writes the magic, header size 16, entry size 20, entry
\* count 64 and path region size 1920, leaves the 64 records and the path
\* region zero, and gives an index of 64 empty slots with
\* path_region_empty_offset 0; parse of the storage succeeds with no
\* paths; the bytes the storage held at offsets from 3216 on are as they
\* were, and the stream length is the larger of the old length and 3216.
C23_CreateFresh ==
    last.op = "create" =>
        LET parsed == parse(storage)
        IN  /\ last.ret = "Ok"
            /\ Slice(storage, 0, 16) = <<80, 75, 71, 10, 0, 16, 0, 20, 0, 0, 0, 64, 0, 0, 7, 128>>
            /\ \A i \in DOMAIN storage.data : i < 16 \/ i >= 3216
            /\ Len(state.entries) = 64
            /\ \A k \in 1..64 : state.entries[k] = None
            /\ state.path_region_size = 1920
            /\ state.path_region_empty_offset = 0
            /\ paths(state) = {}
            /\ parsed.ret = "Ok"
            /\ paths(parsed.st.v) = {}
            /\ Len(parsed.st.v.entries) = 64
            /\ \A i \in DOMAIN storage.data \cup DOMAIN prev.io.data :
                  i >= 3216 => Byte(storage, i) = Byte(prev.io, i)
            /\ storage.len = Max(prev.io.len, 3216)

\* C23, reached: create on a storage of 3300 bytes, left at its end, with
\* bytes set inside the first 3216 and beyond them.
C23_Reached ==
    /\ last.op = "create"
    /\ prev.io.len = 3300
    /\ prev.io.pos = 3300
    /\ DOMAIN prev.io.data = OldMarks
    /\ DOMAIN storage.data \cap {17, 3215, 3216, 3299} = {3216, 3299}

\* C24: when insert, remove, rename, replace or repack returns an error,
\* one of its own or an I/O error of the storage, the index (entries, path
\* map, path_region_size, path_region_empty_offset) is as it was before
\* the call.
C24_FailureKeepsIndex ==
    (/\ last.op \in {"insert", "remove", "rename", "replace", "repack"}
     /\ last.ret \in {"NotFound", "AlreadyExists", "OverlappingEntries", "Io"}) =>
        state = prev.st

\* C25: at every point between two storage requests of reserve_entries,
\* push_back_and_resize_path_region and reserve_path_space, as an insert
\* runs them, the storage parses to the index as it was before the routine
\* or to the index as the routine leaves it.
C25_OldOrNewLayout ==
    (last.op = "insert" /\ last.ret = "Ok") =>
        LET points == IF before.full
                      THEN reserve_entries_points(Ctx(prev.st, prev.io), PREALLOCATED_ENTRY_COUNT)
                      ELSE IF before.short
                      THEN reserve_path_space_points(Ctx(prev.st, prev.io),
                               Len(last.path) + 1 + PREALLOCATED_PATH_LEN * 32)
                      ELSE <<>>
        IN  \A k \in 1..Len(points) :
                points[k].fault = "none" =>
                    \/ ParsesAs(points[k].io, prev.st)
                    \/ ParsesAs(points[k].io, points[Len(points)].st)

\* C26: once a writer has finished, and after a repack, every entry
\* inserted with Deflate has the flag byte 1 (flags 0x01000000) in its
\* record in the storage, unpacked_size the number of bytes the caller
\* wrote, data_size the length of the compressed stream, which is what the
\* storage holds at data_offset, and open read to the end gives the bytes
\* the caller wrote.
C26_DeflateRoundTrip ==
    (Settled /\ last.op \in {"finish", "repack"} /\ last.ret = "Ok") =>
        \A p \in paths(state) :
            LET i == state.path_to_entry_index_map[p]
                entry == state.entries[i + 1].v
            IN  (state.entries[i + 1].some /\ entry.flags = DEFLATED) =>
                    /\ Byte(storage, entry_list_offset + i * ENTRY_SIZE + 4) = 1
                    /\ OnDisk(i).some
                    /\ OnDisk(i).v.flags = DEFLATED
                    /\ entry.unpacked_size = Len(expected[p])
                    /\ OnDisk(i).v.unpacked_size = Len(expected[p])
                    /\ entry.data_size = Len(zlib_stream(expected[p]))
                    /\ OnDisk(i).v.data_size = entry.data_size
                    /\ entry.data_offset + entry.data_size <= storage.len
                    /\ Slice(storage, entry.data_offset, entry.data_size) = zlib_stream(expected[p])
                    /\ open_read_to_end(state, storage, p) = [ret |-> "Ok", bytes |-> expected[p]]

\* C27: the hash of every path is the hash of the path in lower case,
\* each character folded in as rotate-right by 5 then xor, and it is the
\* path_hash of the path's entry; two paths that differ in case only are
\* both inserted, are two entries in two slots with the same path_hash,
\* and each opens to the bytes written for it.
C27_HashFoldsCase ==
    /\ last.op = "insert" => last.ret = "Ok"
    /\ Settled =>
          /\ paths(state) = DOMAIN expected
          /\ \A p \in paths(state) :
                /\ pkg_path_hash(p) = pkg_path_hash(Lowercased(p))
                /\ HashBits(pkg_path_hash(p)) = RotateXor(Lowercased(p), Len(p))
                /\ state.entries[state.path_to_entry_index_map[p] + 1].v.path_hash = pkg_path_hash(p)
                /\ open_read_to_end(state, storage, p) = [ret |-> "Ok", bytes |-> expected[p]]
          /\ \A p, q \in paths(state) :
                (p # q /\ Lowercased(p) = Lowercased(q)) =>
                    /\ state.path_to_entry_index_map[p] # state.path_to_entry_index_map[q]
                    /\ state.entries[state.path_to_entry_index_map[p] + 1].v.path_hash
                           = state.entries[state.path_to_entry_index_map[q] + 1].v.path_hash
                    /\ OnDisk(state.path_to_entry_index_map[p]).v.path_hash
                           = OnDisk(state.path_to_entry_index_map[q]).v.path_hash

\* C27, reached: "Az" and "aZ" are both in the archive, the first holding
\* 0xAA and the second 0xBB.
C27_Reached ==
    /\ Settled
    /\ paths(state) = {<<65, 122>>, <<97, 90>>}
    /\ open_read_to_end(state, storage, <<65, 122>>).bytes = <<170>>
    /\ open_read_to_end(state, storage, <<97, 90>>).bytes = <<187>>

\* C28: every read on the handle of a raw entry returns bytes the storage
\* holds inside the entry's blob, [data_offset, data_offset + data_size),
\* from the position the last seek returned plus the bytes read since, and
\* no more bytes than the blob has from that position on.
C28_RawReadInsideBlob ==
    (last.op = "read" /\ ~before.writer /\ ~before.deflate) =>
        LET entry == state.entries[state.path_to_entry_index_map[last.path] + 1].v
            from == prev.io.pos
            pos == from - entry.data_offset
        IN  /\ last.ret = "Ok"
            /\ last.got = Slice(prev.io, from, Len(last.got))
            /\ Len(last.got) > 0 =>
                  /\ entry.data_offset <= from
                  /\ from + Len(last.got) <= entry.data_offset + entry.data_size
                  /\ expected.pos - Len(last.got) = pos
            /\ Len(last.got) <= Max(entry.data_size - pos, 0)

\* C29: a seek on the handle of a deflated entry, reader or writer, fails
\* as not seekable and leaves the handle and the storage, its position
\* included, as they were; a read on the writer of a deflated entry fails
\* as not readable; and a read on a deflate reader that has seen the end of
\* its stream returns no bytes.
C29_DeflateHandles ==
    /\ (last.op = "seek" /\ before.deflate) =>
          /\ last.ret = "NotSeekable"
          /\ handle = before
          /\ storage = prev.io
    /\ (last.op = "read" /\ before.deflate /\ before.writer) =>
          /\ last.ret = "NotReadable"
          /\ last.got = <<>>
          /\ handle = before
          /\ storage = prev.io
    /\ (last.op = "read" /\ before.deflate /\ ~before.writer /\ before.done) =>
          /\ last.ret = "Ok"
          /\ last.got = <<>>
          /\ handle.done

\* C29, reached: a deflate reader gave the two bytes of its entry one at a
\* time, saw the end of the stream, and was read again.
C29_Reached ==
    /\ last.op = "read"
    /\ last.value = 4
    /\ last.got = <<>>
    /\ before.deflate /\ ~before.writer /\ before.done
    /\ prev.last.op = "read"
    /\ prev.last.got = <<32>>
    /\ expected.pos = 2

\* C30: when push_back_data_region(min_offset) has run to its end, no
\* occupied entry has data_offset below min_offset, the bytes of every
\* entry it moved are at the new offset what they were at the old one, the
\* entry's record in the storage carries the new offset, and the header's
\* entry_count and path_region_size are as they were; min_offset is the
\* start of the data region moved up by 1, by 2 or by the growth of an
\* insert, whatever the length of the stream.
C30_PushBackClears ==
    Settled =>
        \A amount \in {1, 2, 2 + PREALLOCATED_PATH_LEN * 32} :
            LET min_offset == data_region_offset(state) + amount
                m == push_back_data_region(Ctx(state, storage), min_offset)
            IN  m.fault = "none" =>
                    /\ \A i \in OccupiedSlots(m.st) : m.st.entries[i + 1].v.data_offset >= min_offset
                    /\ OccupiedSlots(m.st) = OccupiedSlots(state)
                    /\ \A i \in OccupiedSlots(state) :
                          LET old == state.entries[i + 1].v
                              new == m.st.entries[i + 1].v
                          IN  IF old.data_offset >= min_offset THEN new = old
                              ELSE /\ new = [old EXCEPT !.data_offset = new.data_offset]
                                   /\ Slice(m.io, new.data_offset, new.data_size)
                                          = Slice(storage, old.data_offset, old.data_size)
                                   /\ parse_record(m.io, i).slot.some
                                   /\ parse_record(m.io, i).slot.v.data_offset = new.data_offset
                    /\ Slice(m.io, 8, 8) = Slice(storage, 8, 8)

\* C31: copy_within(from, count, to) with the source range inside the vector
\* succeeds, and when it succeeds the count bytes at `to` are the bytes that
\* were at `from`, every byte outside [to, to + count) is as it was, and the
\* vector is as long as it was or ends where the copy ends; for ranges that
\* overlap either way and for a count above the buffer size.  (A read
\* outside the source range shows as a wrong byte or as UnexpectedEof.)
C31_CopyWithinCopies ==
    last.op = "copy" =>
        /\ last.from + last.count <= prev.io.len => last.ret = "Ok"
        /\ last.ret = "Ok" =>
              /\ Slice(storage, last.to, last.count) = Slice(prev.io, last.from, last.count)
              /\ \A i \in DOMAIN storage.data \cup DOMAIN prev.io.data :
                    (i < last.to \/ i >= last.to + last.count) => Byte(storage, i) = Byte(prev.io, i)
              /\ storage.len = IF last.count = 0 THEN prev.io.len
                               ELSE Max(prev.io.len, last.to + last.count)

\* C32: reserve_entries(amount) runs to its end and leaves the entry table
\* longer by amount slots, each None in the index and 20 zero bytes in the
\* storage, path_region_size larger by amount * 30, and the path region
\* amount * 20 bytes further on with every byte of the old path region at
\* the offset it had within the region; the entries there were keep their
\* slot, their path and their relative_path_offset.  The amounts are 1, 2
\* and the 64 of insert.
C32_ReserveEntriesGrows ==
    Settled =>
        \A amount \in {1, 2, PREALLOCATED_ENTRY_COUNT} :
            LET m == reserve_entries(Ctx(state, storage), amount)
                old_len == Len(state.entries)
                old_offset == path_region_offset(state)
            IN  /\ m.fault = "none"
                /\ Len(m.st.entries) = old_len + amount
                /\ \A i \in old_len..(old_len + amount - 1) :
                      /\ m.st.entries[i + 1] = None
                      /\ Slice(m.io, entry_list_offset + i * ENTRY_SIZE, ENTRY_SIZE)
                             = [k \in 1..ENTRY_SIZE |-> 0]
                /\ m.st.path_region_size = state.path_region_size + amount * 30
                /\ path_region_offset(m.st) = old_offset + amount * 20
                /\ Slice(m.io, old_offset + amount * 20, state.path_region_size)
                       = Slice(storage, old_offset, state.path_region_size)
                /\ m.st.path_to_entry_index_map = state.path_to_entry_index_map
                /\ \A k \in 1..old_len :
                      /\ m.st.entries[k].some = state.entries[k].some
                      /\ state.entries[k].some =>
                            /\ m.st.entries[k].v.path = state.entries[k].v.path
                            /\ m.st.entries[k].v.relative_path_offset
                                   = state.entries[k].v.relative_path_offset

\* C33: a rename that returns Ok, of the path whose bytes and NUL end at
\* path_region_empty_offset, leaves the entry's relative_path_offset as it
\* was, has dst and a NUL in the storage at path_region_offset +
\* relative_path_offset, and moves path_region_empty_offset by
\* len(dst) - len(src).
C33_RenameLastInPlace ==
    (/\ last.op = "rename"
     /\ last.ret = "Ok"
     /\ contains(prev.st, last.path)
     /\ LET old == prev.st.entries[prev.st.path_to_entry_index_map[last.path] + 1].v
        IN  old.relative_path_offset + Len(last.path) + 1 = prev.st.path_region_empty_offset)
    => LET entry_idx == prev.st.path_to_entry_index_map[last.path]
           old == prev.st.entries[entry_idx + 1].v
       IN  /\ state.entries[entry_idx + 1].some
           /\ state.entries[entry_idx + 1].v.relative_path_offset = old.relative_path_offset
           /\ Slice(storage, path_region_offset(state) + old.relative_path_offset,
                    Len(last.dst) + 1) = last.dst \o <<0>>
           /\ state.path_region_empty_offset
                  = prev.st.path_region_empty_offset + Len(last.dst) - Len(last.path)

\* C34: parse treats a record with data_offset 0 as an empty slot whatever
\* its other fields hold: it returns what it returns for the same storage
\* with that record all zero, the same error or the same index, and so never
\* UnrecognisedEntryFlags, NonAsciiPath or SamePath on account of it.
C34_ZeroOffsetIsEmpty ==
    last.op = "parse" =>
        LET blank == parse(Blanked(prev.io))
        IN  /\ last.ret = blank.ret
            /\ last.ret = "Ok" => state = blank.st.v

\* C35: parse of a path blob that ends with n zero bytes sets
\* path_region_empty_offset to path_region_size - max(0, n - 1), which is at
\* most path_region_size; also for a blob that ends with no zero byte and
\* for an empty one.
C35_EmptyOffsetOfBlob ==
    (last.op = "parse" /\ last.ret = "Ok") =>
        LET region == HEADER_SIZE + Len(state.entries) * ENTRY_SIZE
            n == TrailingZeros(Slice(prev.io, region, state.path_region_size))
        IN  /\ state.path_region_empty_offset = state.path_region_size - Max(0, n - 1)
            /\ state.path_region_empty_offset <= state.path_region_size

\* C36: as long as no call has failed in the storage or ended the process,
\* path_region_empty_offset is at most path_region_size, and every entry's
\* path with its NUL lies inside the path region.
C36_EmptyOffsetInRegion ==
    last.ret \notin Dead =>
        /\ state.path_region_empty_offset <= state.path_region_size
        /\ \A i \in OccupiedSlots(state) :
              state.entries[i + 1].v.relative_path_offset + Len(state.entries[i + 1].v.path) + 1
                  <= state.path_region_size

\* C37: a flush of a write handle that returns leaves in the storage, at
\* 16 + slot * 20, the record of the bytes stored so far, and the cursor at
\* data_offset + the handle's stored size; a write right after it succeeds
\* and leaves the bytes the record counted as they were; and after finish
\* data_size is the number of bytes the storage holds from data_offset on.
\* For raw and for deflate handles.
C37_FlushContinues ==
    /\ (last.op = "flush" /\ last.ret = "Ok") =>
          /\ handle.live
          /\ storage.pos = handle.offset + handle.size
          /\ parse_record(storage, handle.entry_slot).slot
                 = Some([state.entries[handle.entry_slot + 1].v EXCEPT !.path = <<>>])
          /\ state.entries[handle.entry_slot + 1].v.data_offset = handle.offset
          /\ state.entries[handle.entry_slot + 1].v.data_size = handle.size
    /\ (last.op = "write" /\ prev.last.op = "flush" /\ prev.last.ret = "Ok") =>
          /\ last.ret = "Ok"
          /\ LET flushed == prev.st.entries[handle.entry_slot + 1].v
             IN  Slice(storage, flushed.data_offset, flushed.data_size)
                    = Slice(prev.io, flushed.data_offset, flushed.data_size)
    /\ (last.op = "finish" /\ last.ret = "Ok") =>
          LET entry == state.entries[state.path_to_entry_index_map[before.path] + 1].v
          IN  entry.data_size = storage.len - entry.data_offset

\* C38: insert leaves the slot of its handle None in the index and 20 zero
\* bytes in the storage, and a write changes neither the slot nor its
\* record, so both stay so until a flush or the finish; finish leaves in the slot, and as the record at
\* 16 + slot * 20, the entry with data_offset the end of the stream as
\* insert found it, data_size the bytes stored from there, unpacked_size the
\* bytes the caller wrote (data_size for a raw handle), the hash of the
\* path, the relative_path_offset the path insertion returned, and the flag
\* DEFLATED exactly for a handle asked to compress.
C38_FinishWritesRecord ==
    /\ (last.op = "insert" /\ last.ret = "Ok") =>
          /\ handle.offset = storage.len
          /\ Slice(storage, path_region_offset(state) + handle.relative_path_offset,
                   Len(last.path) + 1) = last.path \o <<0>>
    /\ (last.op = "insert" /\ last.ret = "Ok") =>
          /\ state.entries[handle.entry_slot + 1] = None
          /\ Slice(storage, entry_list_offset + handle.entry_slot * ENTRY_SIZE, ENTRY_SIZE)
                 = [k \in 1..ENTRY_SIZE |-> 0]
    /\ (last.op = "write" /\ last.ret = "Ok") =>
          /\ state.entries[handle.entry_slot + 1] = prev.st.entries[handle.entry_slot + 1]
          /\ Slice(storage, entry_list_offset + handle.entry_slot * ENTRY_SIZE, ENTRY_SIZE)
                 = Slice(prev.io, entry_list_offset + handle.entry_slot * ENTRY_SIZE, ENTRY_SIZE)
          /\ handle.offset = prev.h.offset
          /\ handle.relative_path_offset = prev.h.relative_path_offset
          /\ handle.entry_slot = prev.h.entry_slot
    /\ (last.op = "finish" /\ last.ret = "Ok") =>
          LET h == prev.h
              entry == [path |-> h.path,
                        path_hash |-> pkg_path_hash(h.path),
                        relative_path_offset |-> h.relative_path_offset,
                        flags |-> IF h.deflate THEN DEFLATED ELSE 0,
                        data_offset |-> h.offset,
                        data_size |-> storage.len - h.offset,
                        unpacked_size |-> IF h.deflate THEN Len(expected[h.path])
                                          ELSE storage.len - h.offset]
          IN  /\ state.entries[h.entry_slot + 1] = Some(entry)
              /\ ~h.deflate => entry.data_size = Len(expected[h.path])
              /\ parse_record(storage, h.entry_slot).slot = Some([entry EXCEPT !.path = <<>>])

\* C38, reached: a handle asked to compress was finished after one byte was
\* written to it, and its entry has the 4 stored bytes and the 1 byte put in.
C38_Reached ==
    /\ last.op = "finish" /\ last.ret = "Ok"
    /\ prev.last.op = "write"
    /\ prev.h.deflate
    /\ expected[prev.h.path] = <<187>>
    /\ state.entries[prev.h.entry_slot + 1].v.data_size = 4
    /\ state.entries[prev.h.entry_slot + 1].v.unpacked_size = 1

\* C38 as the sentence has it: while a write handle is live, not finished
\* or dropped, its slot is None in the index and zero in the storage.
C38_SlotEmptyUntilFinish ==
    (handle.live /\ last.ret = "Ok") =>
        /\ state.entries[handle.entry_slot + 1] = None
        /\ Slice(storage, entry_list_offset + handle.entry_slot * ENTRY_SIZE, ENTRY_SIZE)
               = [k \in 1..ENTRY_SIZE |-> 0]

\* C39: insert, remove, rename and replace, whatever they return, leave
\* every path that is in the index before and after the call at its slot, with
\* the slot occupied before and after; a rename gives the new path the slot
\* of the old one, a replace leaves dst at its slot or, when dst was not
\* there, gives it the slot of src; an insert puts its path at a slot that
\* was None; and none of them makes the entry table shorter. A repack does
\* renumber: it leaves the occupied slots first.
C39_SlotsStable ==
    LET had == prev.st.path_to_entry_index_map
        has == state.path_to_entry_index_map
    IN  /\ last.op \in {"insert", "remove", "rename", "replace"} =>
              /\ Len(state.entries) >= Len(prev.st.entries)
              /\ \A p \in DOMAIN had \cap DOMAIN has :
                    /\ has[p] = had[p]
                    /\ prev.st.entries[had[p] + 1].some
                    /\ last.ret \notin Dead => state.entries[has[p] + 1].some
              /\ \A p \in DOMAIN has \ DOMAIN had :
                    /\ p = IF last.op = "insert" THEN last.path ELSE last.dst
                    /\ last.op = "insert" =>
                          \/ has[p] >= Len(prev.st.entries)
                          \/ prev.st.entries[has[p] + 1] = None
                    /\ last.op \in {"rename", "replace"} => has[p] = had[last.path]
              /\ \A p \in DOMAIN had \ DOMAIN has :
                    /\ last.op # "insert"
                    /\ p = last.path
        /\ (last.op = "rename" /\ last.ret = "Ok") =>
              /\ last.dst \in DOMAIN has
              /\ has[last.dst] = had[last.path]
        /\ (last.op = "replace" /\ last.ret = "Ok" /\ last.dst \in DOMAIN had) =>
              /\ last.dst \in DOMAIN has
              /\ has[last.dst] = had[last.dst]
        /\ (last.op = "repack" /\ last.ret = "Ok") =>
              \A p \in DOMAIN has : has[p] < Cardinality(DOMAIN has)

\* C39, reached: a path at slot 0 was removed, or replaced another path,
\* while a path at slot 1 was in the index, which is at slot 1 still, over
\* the slot 0 now None.
C39_Reached ==
    /\ last.op \in {"remove", "replace"} /\ last.ret = "Ok"
    /\ prev.st.path_to_entry_index_map[last.path] = 0
    /\ state.entries[1] = None
    /\ \E p \in DOMAIN state.path_to_entry_index_map :
          /\ p \in DOMAIN prev.st.path_to_entry_index_map
          /\ state.path_to_entry_index_map[p] = 1
          /\ state.entries[2].some

\* C40: after every call that returned Ok on the archive that create made,
\* the big-endian u32 at offset 8 of the storage is the length of the entry
\* table in memory, the one at offset 12 is path_region_size in memory, and
\* every slot that is None in memory has its 20 bytes inside the stream and
\* zero.
C40_HeaderAgrees ==
    last.ret = "Ok" =>
        /\ storage.len >= HEADER_SIZE
        /\ as_u32_be(Slice(storage, Len(MAGIC) + 4, 4)) = Len(state.entries)
        /\ as_u32_be(Slice(storage, Len(MAGIC) + 8, 4)) = state.path_region_size
        /\ \A k \in 1..Len(state.entries) :
              state.entries[k] = None =>
                  /\ storage.len >= entry_list_offset + k * ENTRY_SIZE
                  /\ Slice(storage, entry_list_offset + (k - 1) * ENTRY_SIZE, ENTRY_SIZE)
                         = [i \in 1..ENTRY_SIZE |-> 0]

\* C40, reached: an insert found the table that a repack had left without a
\* free slot, and returned with the table 64 slots longer and the path region
\* larger, the slots other than its own None.
C40_Reached ==
    /\ last.op = "insert" /\ last.ret = "Ok"
    /\ prev.last.op = "repack"
    /\ Len(state.entries) = Len(prev.st.entries) + 64
    /\ state.path_region_size > prev.st.path_region_size
    /\ state.entries[Len(state.entries)] = None
====
